---- MODULE Spec2Model ----
(***************************************************************************)
(* Reversed-suffix address trie of splink_udfs: the aggregate that builds  *)
(* it (build_suffix_trie.cpp), the QCK2 codec (build_suffix_trie.cpp,      *)
(* suffix_trie.cpp), the navigator (trie_nav.cpp) and the lookup           *)
(* (address_lookup.cpp).                                                   *)
(*                                                                         *)
(* Representation.  A std::string is the sequence of its bytes.  A         *)
(* uint64_t identifier is the record of its two 32-bit halves (TLC's       *)
(* integers are 32-bit).  A TrieNode's unordered_map is an association     *)
(* list in insertion order, standing for the map's unspecified iteration   *)
(* order.  A PNode's kids vector is a sequence of [tok, node] records;     *)
(* a pointer to an owned node is the node itself.                          *)
(***************************************************************************)
EXTENDS Integers, Sequences, FiniteSets, TLC

VARIABLES root, log, blob, made, kind, pres, walk, find, cache, hist, got, query, rd,
          heap

vars == <<root, log, blob, made, kind, pres, walk, find, cache, hist, got, query, rd,
          heap>>

(***************************************************************************)
(* Bounds of the model.                                                    *)
(***************************************************************************)
\* rows fed to the builders of one run (StateUpdate calls)
MaxInserts == 3
\* tokens per inserted or queried token list
MaxToks == 2
\* bytes appended after a complete encoding
MaxExtra == 2
\* rows of the aggregate whose BLOB the codec and lookup runs start from
MaxBlobRows == 2

\* Get and Put calls on the cache that are not the first Put of a key
MaxTouches == 1

\* GetOrParseTrie calls on one cache
MaxLookups == 4

\* lookups that run at the same time on one parsed trie
MaxReaders == 2

\* tokens of a find_candidates input: enough for a start offset past the
\* trailing tokens find_address ignores, with two tokens left to match
MaxCandToks == 5

Readers == 1..MaxReaders

Builders == {1, 2, 3}

\* tokens "A" and "AB" as byte strings
Tokens == {<<65>>, <<65, 66>>}

\* the null pointer: a value that is no node
NullPtr == [null |-> TRUE]

(***************************************************************************)
(* uint64_t as two 32-bit halves: v = lo + 2^32 * hi.                      *)
(***************************************************************************)
U64(lo, hi) == [lo |-> lo, hi |-> hi]

Zero64 == U64(0, 0)

\* identifiers fed to the builder: 0 and 2^32 + 9
Uprns == {Zero64, U64(9, 1)}

RECURSIVE SeqsUpTo(_, _)
\* all sequences over S of length 0..n
SeqsUpTo(S, n) ==
    IF n = 0 THEN {<<>>}
    ELSE LET shorter == SeqsUpTo(S, n - 1)
         IN  shorter \cup {Append(q, x) : q \in shorter, x \in S}

TokenLists == SeqsUpTo(Tokens, MaxToks)

Min(a, b) == IF a < b THEN a ELSE b

(***************************************************************************)
(* std::string operator< : lexicographic on unsigned bytes.                *)
(***************************************************************************)
StrLess(a, b) ==
    \E k \in 1..Len(b) :
        /\ k <= Len(a) + 1
        /\ \A j \in 1..(k - 1) : a[j] = b[j]
        /\ (k = Len(a) + 1 \/ a[k] < b[k])

(***************************************************************************)
(* Builder trie (build_suffix_trie.cpp).                                   *)
(***************************************************************************)
\* TrieNode's default member initialisers
NewTrieNode == [cnt |-> 0, term |-> 0, uprn |-> Zero64, next |-> <<>>]

\* position of tok in the map, 0 when absent
NextIndex(next, tok) ==
    IF \E i \in 1..Len(next) : next[i].tok = tok
    THEN CHOOSE i \in 1..Len(next) : next[i].tok = tok
    ELSE 0

\* the terminal bookkeeping of InsertReversed with no reset of an ambiguous one
InsertTerminalKeep(n, uprn_val) ==
    [n EXCEPT !.term = n.term + 1,
              !.uprn = IF n.term + 1 = 1 THEN uprn_val ELSE n.uprn]

\* n->term++; uprn is the inserted one iff this is the first terminal here
InsertTerminal(n, uprn_val) ==
    [n EXCEPT !.term = n.term + 1,
              !.uprn = IF n.term + 1 = 1 THEN uprn_val ELSE Zero64]

RECURSIVE InsertFrom(_, _, _, _)
\* the loop of InsertReversed at node n, already counted, with toks[1..i] left
InsertFrom(n, toks, i, uprn_val) ==
    IF i = 0 THEN InsertTerminal(n, uprn_val)
    ELSE LET tok == toks[i]
             k == NextIndex(n.next, tok)
             child == IF k = 0 THEN NewTrieNode ELSE n.next[k].node
             counted == [child EXCEPT !.cnt = child.cnt + 1]
             sub == InsertFrom(counted, toks, i - 1, uprn_val)
         IN  IF k = 0
             THEN [n EXCEPT !.next = Append(n.next, [tok |-> tok, node |-> sub])]
             ELSE [n EXCEPT !.next[k].node = sub]

\* InsertReversed without the root's n->cnt++
InsertReversedNoRootCount(rt, toks, uprn_val) ==
    InsertFrom(rt, toks, Len(toks), uprn_val)

InsertReversed(rt, toks, uprn_val) ==
    InsertFrom([rt EXCEPT !.cnt = rt.cnt + 1], toks, Len(toks), uprn_val)

\* the identifier a merged node gets when only the destination's is looked at
MergeUprnDstOnly(term, dst_uprn_before, src_uprn) ==
    IF term = 1 THEN dst_uprn_before ELSE Zero64

\* the identifier of a merged node whose summed terminal count is term
MergeUprn(term, dst_uprn_before, src_uprn) ==
    IF term = 0 THEN Zero64
    ELSE IF term = 1
         THEN (IF dst_uprn_before # Zero64 THEN dst_uprn_before ELSE src_uprn)
         ELSE Zero64

RECURSIVE MergeTrie(_, _)
RECURSIVE MergeKidsExistingOnly(_, _, _)
\* the loop over src.next merging only into children the destination has
MergeKidsExistingOnly(dnext, snext, k) ==
    IF k > Len(snext) THEN dnext
    ELSE LET kv == snext[k]
             j == NextIndex(dnext, kv.tok)
         IN  IF j = 0 THEN MergeKidsExistingOnly(dnext, snext, k + 1)
             ELSE MergeKidsExistingOnly(
                    [dnext EXCEPT ![j].node = MergeTrie(dnext[j].node, kv.node)],
                    snext, k + 1)

RECURSIVE MergeKids(_, _, _)
\* the loop over src.next from its k-th entry on, into the destination map
MergeKids(dnext, snext, k) ==
    IF k > Len(snext) THEN dnext
    ELSE LET kv == snext[k]
             j == NextIndex(dnext, kv.tok)
             dchild == IF j = 0 THEN NewTrieNode ELSE dnext[j].node
             merged == MergeTrie(dchild, kv.node)
             after == IF j = 0
                      THEN Append(dnext, [tok |-> kv.tok, node |-> merged])
                      ELSE [dnext EXCEPT ![j].node = merged]
         IN  MergeKids(after, snext, k + 1)

\* the destination node after MergeTrie(dst, src)
MergeTrie(dst, src) ==
    [cnt |-> dst.cnt + src.cnt,
     term |-> dst.term + src.term,
     uprn |-> MergeUprn(dst.term + src.term, dst.uprn, src.uprn),
     next |-> MergeKids(dst.next, src.next, 1)]

(***************************************************************************)
(* QCK2 serialisation (build_suffix_trie.cpp).                             *)
(***************************************************************************)
\* 'QCK2' = 0x324B4351
QCK2_MAGIC == 843793233

\* four bytes, little-endian, of v truncated to 32 bits
W32(v) ==
    << v % 256, (v \div 256) % 256, (v \div 65536) % 256, (v \div 16777216) % 256 >>

\* the two halves written high half first
W64HiFirst(v) == W32(v.hi) \o W32(v.lo)

\* low half first, then the high half
W64(v) == W32(v.lo) \o W32(v.hi)

WStr(s) == W32(Len(s)) \o s

\* the (key, child) pairs in map iteration order, left unsorted
ItemsUnsorted(items) == items

RECURSIVE SortItems(_)
\* std::sort of the (key, child) pairs by key
SortItems(items) ==
    IF items = <<>> THEN <<>>
    ELSE LET m == CHOOSE i \in 1..Len(items) :
                      \A j \in 1..Len(items) : ~StrLess(items[j].tok, items[i].tok)
             rest == SubSeq(items, 1, m - 1) \o SubSeq(items, m + 1, Len(items))
         IN  <<items[m]>> \o SortItems(rest)

RECURSIVE SerializeNodeQCK2(_)
RECURSIVE SerializeItems(_, _)
\* the loop over the sorted items from the k-th on
SerializeItems(items, k) ==
    IF k > Len(items) THEN <<>>
    ELSE WStr(items[k].tok) \o SerializeNodeQCK2(items[k].node)
             \o SerializeItems(items, k + 1)

\* the bytes SerializeNodeQCK2 appends for node n
SerializeNodeQCK2(n) ==
    LET items == SortItems(n.next)
    IN  W32(n.cnt) \o W32(n.term) \o W64(n.uprn) \o W32(Len(items))
            \o SerializeItems(items, 1)

\* the BLOB StateFinalize makes of a root: magic, flags 0x00, root node
FinalizeBytes(rt) == W32(QCK2_MAGIC) \o <<0>> \o SerializeNodeQCK2(rt)

(***************************************************************************)
(* QCK2 parsing (suffix_trie.cpp).  A ParseCursor is [p, end, rd]: p and   *)
(* end are offsets into the buffer; rd is history: one more than the       *)
(* highest offset whose byte has been read so far.                         *)
(***************************************************************************)
Max(a, b) == IF a > b THEN a ELSE b

\* the byte at offset o; offsets at or beyond the end hold no byte of the buffer
ByteAt(buf, o) == IF o < Len(buf) THEN buf[o + 1] ELSE 0

\* the cursor after the bytes [c.p, c.p + n) were read and stepped over
Advance(c, n) == [c EXCEPT !.p = c.p + n, !.rd = Max(c.rd, c.p + n)]

\* ReadU32 whose bounds test lets a read end one byte past the buffer
ReadU32OffByOne(buf, c) ==
    IF c.p + 4 > c.end + 1
    THEN [ok |-> FALSE, c |-> c, out |-> 0]
    ELSE [ok |-> TRUE,
          c |-> Advance(c, 4),
          out |-> ByteAt(buf, c.p) + 256 * ByteAt(buf, c.p + 1)
                    + 65536 * ByteAt(buf, c.p + 2) + 16777216 * ByteAt(buf, c.p + 3)]

ReadU32(buf, c) ==
    IF c.p + 4 > c.end
    THEN [ok |-> FALSE, c |-> c, out |-> 0]
    ELSE [ok |-> TRUE,
          c |-> Advance(c, 4),
          out |-> ByteAt(buf, c.p) + 256 * ByteAt(buf, c.p + 1)
                    + 65536 * ByteAt(buf, c.p + 2) + 16777216 * ByteAt(buf, c.p + 3)]

\* ptr is the offset of the n bytes; nothing is read yet
ReadBytes(c, n) ==
    IF c.p + n > c.end
    THEN [ok |-> FALSE, c |-> c, ptr |-> 0]
    ELSE [ok |-> TRUE, c |-> [c EXCEPT !.p = c.p + n], ptr |-> c.p]

ReadString(buf, c) ==
    LET l == ReadU32(buf, c)
        b == ReadBytes(l.c, l.out)
    IN  IF ~l.ok THEN [ok |-> FALSE, c |-> l.c, s |-> <<>>]
        ELSE IF ~b.ok THEN [ok |-> FALSE, c |-> b.c, s |-> <<>>]
        ELSE [ok |-> TRUE,
              c |-> [b.c EXCEPT !.rd = Max(b.c.rd, b.ptr + l.out)],
              s |-> [k \in 1..l.out |-> ByteAt(buf, b.ptr + k - 1)]]

\* kid slots a host's allocator grants to one kids.reserve(nchild): a host that
\* refuses a block of 2^30 slots (40 GiB of 40-byte kids) and one that grants
\* every request
ReserveGrants == {1073741824, 2147483647}

\* kids.reserve(nchild) raises std::bad_alloc / std::length_error
ReserveThrows(nchild, mem) == nchild > mem

RECURSIVE ParseNodeQCK2(_, _, _)
RECURSIVE ParseKids(_, _, _, _, _, _)
\* the loop of ParseNodeQCK2 over the children from the i-th on (0-based)
ParseKids(buf, c, i, nchild, kids, mem) ==
    IF i >= nchild THEN [st |-> "ok", c |-> c, kids |-> kids]
    ELSE LET rs == ReadString(buf, c)
             ch == ParseNodeQCK2(buf, rs.c, mem)
         IN  IF ~rs.ok THEN [st |-> "fail", c |-> rs.c, kids |-> kids]
             ELSE IF ch.st # "ok" THEN [st |-> ch.st, c |-> ch.c, kids |-> kids]
             ELSE ParseKids(buf, ch.c, i + 1, nchild,
                            Append(kids, [tok |-> rs.s, node |-> ch.node]), mem)

\* st is "ok" (true), "fail" (false) or "throw" (an exception leaves the call)
ParseNodeQCK2(buf, c, mem) ==
    LET none == [cnt |-> 0, term |-> 0, uprn |-> Zero64, kids |-> <<>>]
        rcnt == ReadU32(buf, c)
        rterm == ReadU32(buf, rcnt.c)
        rlo == ReadU32(buf, rterm.c)
        rhi == ReadU32(buf, rlo.c)
        rn == ReadU32(buf, rhi.c)
        ks == ParseKids(buf, rn.c, 0, rn.out, <<>>, mem)
    IN  IF ~rcnt.ok THEN [st |-> "fail", c |-> rcnt.c, node |-> none]
        ELSE IF ~rterm.ok THEN [st |-> "fail", c |-> rterm.c, node |-> none]
        ELSE IF ~rlo.ok THEN [st |-> "fail", c |-> rlo.c, node |-> none]
        ELSE IF ~rhi.ok THEN [st |-> "fail", c |-> rhi.c, node |-> none]
        ELSE IF ~rn.ok THEN [st |-> "fail", c |-> rn.c, node |-> none]
        ELSE IF ReserveThrows(rn.out, mem) THEN [st |-> "throw", c |-> rn.c, node |-> none]
        ELSE IF ks.st # "ok" THEN [st |-> ks.st, c |-> ks.c, node |-> none]
        ELSE [st |-> "ok",
              c |-> ks.c,
              node |-> [cnt |-> rcnt.out, term |-> rterm.out,
                        uprn |-> U64(rlo.out, rhi.out), kids |-> ks.kids]]

\* the test for trailing bytes left out
StrictConsumptionOff(c) == FALSE

\* bytes are left after the root node
TrailingBytes(c) == c.p # c.end

\* the outcome of ParseQCK2(blob): st "ok" with the trie's root, "fail" for
\* nullptr, "throw" for an exception; c is the cursor when the call ends
ParseQCK2(buf, mem) ==
    LET cur == [p |-> 0, end |-> Len(buf), rd |-> 0]
        none == [cnt |-> 0, term |-> 0, uprn |-> Zero64, kids |-> <<>>]
        magic == ReadU32(buf, cur)
        flags == ByteAt(buf, magic.c.p)
        cflags == Advance(magic.c, 1)
        nd == ParseNodeQCK2(buf, cflags, mem)
    IN  IF Len(buf) < 5 THEN [st |-> "fail", c |-> cur, root |-> none]
        ELSE IF ~magic.ok THEN [st |-> "fail", c |-> magic.c, root |-> none]
        ELSE IF magic.out # QCK2_MAGIC THEN [st |-> "fail", c |-> magic.c, root |-> none]
        ELSE IF magic.c.p >= magic.c.end THEN [st |-> "fail", c |-> magic.c, root |-> none]
        ELSE IF flags # 0 THEN [st |-> "fail", c |-> cflags, root |-> none]
        ELSE IF nd.st # "ok" THEN [st |-> nd.st, c |-> nd.c, root |-> none]
        ELSE IF TrailingBytes(nd.c) THEN [st |-> "fail", c |-> nd.c, root |-> none]
        ELSE [st |-> "ok", c |-> nd.c, root |-> nd.node]

(***************************************************************************)
(* Navigator (trie_nav.cpp).                                               *)
(***************************************************************************)
\* token.compare(key): negative, zero or positive
Compare(token, key) ==
    IF token = key THEN 0 ELSE IF StrLess(token, key) THEN -1 ELSE 1

RECURSIVE FindChildBetween(_, _, _, _)
\* the binary search of FindChild over kids[lo..hi) (0-based offsets)
FindChildBetween(kids, token, lo, hi) ==
    IF lo >= hi THEN NullPtr
    ELSE LET mid == (lo + hi) \div 2
             cmp == Compare(token, kids[mid + 1].tok)
         IN  IF cmp = 0 THEN kids[mid + 1].node
             ELSE IF cmp < 0 THEN FindChildBetween(kids, token, lo, mid)
             ELSE FindChildBetween(kids, token, mid + 1, hi)

FindChild(node, token) ==
    IF node = NullPtr THEN NullPtr
    ELSE FindChildBetween(node.kids, token, 0, Len(node.kids))

RECURSIVE WalkExactFrom(_, _, _)
\* the loop of WalkExact at node n with toks[1..i] left
WalkExactFrom(n, toks, i) ==
    IF i = 0 THEN n
    ELSE LET next == FindChild(n, toks[i])
         IN  IF next = NullPtr THEN NullPtr ELSE WalkExactFrom(next, toks, i - 1)

\* pt is a ParsedTrie: [root |-> a PNode or NullPtr]
WalkExact(pt, toks) ==
    IF pt.root = NullPtr THEN NullPtr ELSE WalkExactFrom(pt.root, toks, Len(toks))

(***************************************************************************)
(* Lookup (address_lookup.cpp).                                            *)
(***************************************************************************)
RECURSIVE LowerBound(_, _, _, _)
\* std::lower_bound over kids[first, first + len) by key < tok
LowerBound(kids, tok, first, len) ==
    IF len <= 0 THEN first
    ELSE LET half == len \div 2
             mid == first + half
         IN  IF StrLess(kids[mid + 1].tok, tok)
             THEN LowerBound(kids, tok, mid + 1, len - half - 1)
             ELSE LowerBound(kids, tok, first, half)

\* the static FindChild of address_lookup.cpp
LookupFindChild(node, tok) ==
    IF node = NullPtr THEN NullPtr
    ELSE LET it == LowerBound(node.kids, tok, 0, Len(node.kids))
         IN  IF it = Len(node.kids) THEN NullPtr
             ELSE IF node.kids[it + 1].tok # tok THEN NullPtr
             ELSE node.kids[it + 1].node

RECURSIVE ResolveUniqueTerminal(_)
ResolveUniqueTerminal(node) ==
    IF node = NullPtr THEN NullPtr
    ELSE IF node.term = 1 THEN node
    ELSE LET live == {k \in 1..Len(node.kids) : node.kids[k].node.cnt # 0}
         IN  IF Cardinality(live) > 1 THEN NullPtr
             ELSE IF live = {} THEN NullPtr
             ELSE ResolveUniqueTerminal(node.kids[CHOOSE k \in live : TRUE].node)

\* the defaults of AddressMatchParams
DefaultMatchParams ==
    [skip_min_local_count |-> 10, skip_max_in_walk |-> 2, min_matched_tokens |-> 2,
     entry_min_local_count |-> 10, max_trailing_tokens_ignored |-> 2,
     max_trie_entry_depth |-> 2]

\* TryAcceptCurrentNode taking a terminal only when it is a leaf
TryAcceptLeafOnly(params, node, start_index, tokens_consumed, total_tokens) ==
    LET matched == IF tokens_consumed > start_index
                   THEN tokens_consumed - start_index ELSE 0
        terminal == ResolveUniqueTerminal(node)
    IN  IF node = NullPtr THEN [ok |-> FALSE, uprn |-> Zero64]
        ELSE IF matched < params.min_matched_tokens THEN [ok |-> FALSE, uprn |-> Zero64]
        ELSE IF node.cnt = 1 /\ terminal # NullPtr /\ terminal.term = 1
        THEN [ok |-> TRUE, uprn |-> terminal.uprn]
        ELSE IF node.term = 1 /\ node.kids = <<>>
        THEN [ok |-> TRUE, uprn |-> node.uprn]
        ELSE [ok |-> FALSE, uprn |-> Zero64]

\* TryAcceptCurrentNode taking an ambiguous terminal as well
TryAcceptAnyTerminal(params, node, start_index, tokens_consumed, total_tokens) ==
    LET matched == IF tokens_consumed > start_index
                   THEN tokens_consumed - start_index ELSE 0
        terminal == ResolveUniqueTerminal(node)
    IN  IF node = NullPtr THEN [ok |-> FALSE, uprn |-> Zero64]
        ELSE IF matched < params.min_matched_tokens THEN [ok |-> FALSE, uprn |-> Zero64]
        ELSE IF node.cnt = 1 /\ terminal # NullPtr /\ terminal.term = 1
        THEN [ok |-> TRUE, uprn |-> terminal.uprn]
        ELSE IF node.term >= 1 /\ (tokens_consumed = total_tokens \/ node.kids = <<>>)
        THEN [ok |-> TRUE, uprn |-> node.uprn]
        ELSE [ok |-> FALSE, uprn |-> Zero64]

\* TryAcceptCurrentNode without the minimum on the tokens matched
TryAcceptNoMinimum(params, node, start_index, tokens_consumed, total_tokens) ==
    LET terminal == ResolveUniqueTerminal(node)
    IN  IF node = NullPtr THEN [ok |-> FALSE, uprn |-> Zero64]
        ELSE IF node.cnt = 1 /\ terminal # NullPtr /\ terminal.term = 1
        THEN [ok |-> TRUE, uprn |-> terminal.uprn]
        ELSE IF node.term = 1 /\ (tokens_consumed = total_tokens \/ node.kids = <<>>)
        THEN [ok |-> TRUE, uprn |-> node.uprn]
        ELSE [ok |-> FALSE, uprn |-> Zero64]

\* uprn is uprn_out, written only when ok
TryAcceptCurrentNode(params, node, start_index, tokens_consumed, total_tokens) ==
    LET matched == IF tokens_consumed > start_index
                   THEN tokens_consumed - start_index ELSE 0
        terminal == ResolveUniqueTerminal(node)
    IN  IF node = NullPtr THEN [ok |-> FALSE, uprn |-> Zero64]
        ELSE IF matched < params.min_matched_tokens THEN [ok |-> FALSE, uprn |-> Zero64]
        ELSE IF node.cnt = 1 /\ terminal # NullPtr /\ terminal.term = 1
        THEN [ok |-> TRUE, uprn |-> terminal.uprn]
        ELSE IF node.term = 1 /\ (tokens_consumed = total_tokens \/ node.kids = <<>>)
        THEN [ok |-> TRUE, uprn |-> node.uprn]
        ELSE [ok |-> FALSE, uprn |-> Zero64]

\* EntryKids taking only children whose count is above the threshold
EntryKidsAbove(node, params) ==
    LET Qualifies(kv) == kv.node.cnt > params.entry_min_local_count
    IN  [k \in 1..Len(SelectSeq(node.kids, Qualifies)) |->
            SelectSeq(node.kids, Qualifies)[k].node]

\* the children of a node that qualify as entry nodes, in kids order
EntryKids(node, params) ==
    LET Qualifies(kv) == kv.node.cnt >= params.entry_min_local_count
    IN  [k \in 1..Len(SelectSeq(node.kids, Qualifies)) |->
            SelectSeq(node.kids, Qualifies)[k].node]

RECURSIVE EntryDFS(_, _, _)
\* the depth-limited DFS of FindAddressExact: stack of [node, depth]
EntryDFS(stack, entry_nodes, params) ==
    IF stack = <<>> THEN entry_nodes
    ELSE LET it == stack[Len(stack)]
             popped == SubSeq(stack, 1, Len(stack) - 1)
         IN  IF it.depth = params.max_trie_entry_depth
             THEN EntryDFS(popped, entry_nodes, params)
             ELSE EntryDFS(
                    popped \o [k \in 1..Len(it.node.kids) |->
                                  [node |-> it.node.kids[k].node, depth |-> it.depth + 1]],
                    entry_nodes \o EntryKids(it.node, params),
                    params)

\* root first, then the seeded nodes in DFS order
EntryNodes(rt, params) ==
    IF params.max_trie_entry_depth > 0
    THEN EntryDFS(<< [node |-> rt, depth |-> 0] >>, <<rt>>, params)
    ELSE <<rt>>

\* Lookahead landing on the first child found, whatever its count
LookaheadAnyCount(node, tokens, i, max_lookahead, params) ==
    LET N == Len(tokens)
        Lands(d) == LookupFindChild(node, tokens[N - (i + d)]) # NullPtr
        ds == {d \in 1..max_lookahead : Lands(d)}
    IN  IF ds = {} THEN [delta |-> 0, node |-> NullPtr]
        ELSE LET d == CHOOSE x \in ds : \A y \in ds : x <= y
             IN  [delta |-> d, node |-> LookupFindChild(node, tokens[N - (i + d)])]

\* the landing of a lookahead skip at node, position i: [delta, node], delta 0 if none
Lookahead(node, tokens, i, max_lookahead, params) ==
    LET N == Len(tokens)
        Lands(d) == LET cand == LookupFindChild(node, tokens[N - (i + d)])
                    IN  cand # NullPtr /\ cand.cnt > params.skip_min_local_count
        ds == {d \in 1..max_lookahead : Lands(d)}
    IN  IF ds = {} THEN [delta |-> 0, node |-> NullPtr]
        ELSE LET d == CHOOSE x \in ds : \A y \in ds : x <= y
             IN  [delta |-> d, node |-> LookupFindChild(node, tokens[N - (i + d)])]

RECURSIVE WalkLoop(_, _, _, _, _, _, _)
\* the while loop of one walk attempt: start s, at node with i tokens consumed.
\* Besides the outcome (ok, uprn) the result tells how the loop ran: hops are
\* the lookahead skips taken from here on (the tokens skipped and the count
\* of the child landed on), consumed is i and node the node when it ended
WalkLoop(tokens, params, s, node, i, skips_used, anchored) ==
    LET N == Len(tokens)
        child == LookupFindChild(node, tokens[N - i])
        direct == TryAcceptCurrentNode(params, child, s, i + 1, N)
        remaining_skips == params.skip_max_in_walk - skips_used
        max_lookahead == IF ~anchored /\ s > 0 THEN 0
                         ELSE Min(remaining_skips, (N - 1) - i)
        hop == Lookahead(node, tokens, i, max_lookahead, params)
        landed == TryAcceptCurrentNode(params, hop.node, s, i + hop.delta + 1, N)
        End(ok, uprn, at, n) ==
            [ok |-> ok, uprn |-> uprn, hops |-> <<>>, consumed |-> at, node |-> n]
    IN  IF i >= N THEN End(FALSE, Zero64, i, node)
        ELSE IF child # NullPtr
        THEN (IF direct.ok THEN End(TRUE, direct.uprn, i + 1, child)
              ELSE WalkLoop(tokens, params, s, child, i + 1, skips_used, TRUE))
        ELSE IF skips_used < params.skip_max_in_walk /\ hop.node # NullPtr
        THEN CHOOSE r \in
                 {[w EXCEPT !.hops = <<[delta |-> hop.delta, cnt |-> hop.node.cnt]>> \o @] :
                     w \in {IF landed.ok
                            THEN End(TRUE, landed.uprn, i + hop.delta + 1, hop.node)
                            ELSE WalkLoop(tokens, params, s, hop.node, i + hop.delta + 1,
                                          skips_used + hop.delta, TRUE)}} : TRUE
        ELSE End(FALSE, Zero64, i, node)

\* one walk attempt and how it ran: start offset s, entry node entry
WalkTrace(tokens, params, s, entry) ==
    LET first == TryAcceptCurrentNode(params, entry, s, s, Len(tokens))
    IN  IF first.ok
        THEN [ok |-> TRUE, uprn |-> first.uprn, hops |-> <<>>, consumed |-> s,
              node |-> entry]
        ELSE WalkLoop(tokens, params, s, entry, s, 0, FALSE)

\* WalkAttempt starting its loop at the rightmost token whatever s is
WalkAttemptFromRightmost(tokens, params, s, entry) ==
    LET first == TryAcceptCurrentNode(params, entry, s, s, Len(tokens))
    IN  IF first.ok THEN first
        ELSE CHOOSE r \in {[ok |-> w.ok, uprn |-> w.uprn] :
                 w \in {WalkLoop(tokens, params, s, entry, 0, 0, FALSE)}} : TRUE

\* the outcome of one walk attempt: ok is whether it accepted, uprn is uprn_out
WalkAttempt(tokens, params, s, entry) ==
    CHOOSE r \in {[ok |-> w.ok, uprn |-> w.uprn] :
        w \in {WalkTrace(tokens, params, s, entry)}} : TRUE

RECURSIVE FindFromLast(_, _, _, _, _, _)
\* the two for loops letting a later accepting attempt override an earlier one
FindFromLast(tokens, params, entry_nodes, max_start, s, e) ==
    IF s > max_start THEN [ok |-> FALSE, uprn |-> Zero64]
    ELSE IF e > Len(entry_nodes)
    THEN FindFromLast(tokens, params, entry_nodes, max_start, s + 1, 1)
    ELSE CHOOSE r \in
             {IF later.ok THEN later ELSE WalkAttempt(tokens, params, s, entry_nodes[e]) :
                 later \in {FindFromLast(tokens, params, entry_nodes, max_start, s, e + 1)}} :
             TRUE

RECURSIVE FindFrom(_, _, _, _, _, _)
\* the two for loops of FindAddressExact from start s, e-th entry node on
FindFrom(tokens, params, entry_nodes, max_start, s, e) ==
    IF s > max_start THEN [ok |-> FALSE, uprn |-> Zero64]
    ELSE IF e > Len(entry_nodes)
    THEN FindFrom(tokens, params, entry_nodes, max_start, s + 1, 1)
    ELSE LET a == WalkAttempt(tokens, params, s, entry_nodes[e])
         IN  IF a.ok THEN a
             ELSE FindFrom(tokens, params, entry_nodes, max_start, s, e + 1)

\* FindAddressExact trying start offset 0 only
FindAddressExactFromZero(trie, tokens, params) ==
    LET N == Len(tokens)
    IN  IF trie.root = NullPtr THEN [ok |-> FALSE, uprn |-> Zero64]
        ELSE IF N = 0 THEN [ok |-> FALSE, uprn |-> Zero64]
        ELSE FindFrom(tokens, params, EntryNodes(trie.root, params), 0, 0, 1)

\* ok is the returned bool, uprn is uprn_out
FindAddressExact(trie, tokens, params) ==
    LET N == Len(tokens)
    IN  IF trie.root = NullPtr THEN [ok |-> FALSE, uprn |-> Zero64]
        ELSE IF N = 0 THEN [ok |-> FALSE, uprn |-> Zero64]
        ELSE FindFrom(tokens, params, EntryNodes(trie.root, params),
                      Min(params.max_trailing_tokens_ignored, N - 1), 0, 1)

(***************************************************************************)
(* Token peeler (peel_utils.cpp; peel_end_tokens.cpp runs the same loop).  *)
(* CountTail is declared in suffix_trie.hpp and its body is not part of    *)
(* the sources: it is taken to be the count of the node reached from the   *)
(* root along tail_reversed, 0 once the path breaks.                       *)
(***************************************************************************)
RECURSIVE CountTailFrom(_, _, _)
CountTailFrom(node, tail_reversed, i) ==
    IF node = NullPtr THEN 0
    ELSE IF i > Len(tail_reversed) THEN node.cnt
    ELSE CountTailFrom(FindChild(node, tail_reversed[i]), tail_reversed, i + 1)

CountTail(pt, tail_reversed) ==
    IF pt.root = NullPtr \/ tail_reversed = <<>> THEN 0
    ELSE CountTailFrom(pt.root, tail_reversed, 1)

\* whether the peeler drops the last k tokens: the anchor alone is counted
\* more often than the reversed tail followed by the anchor
PeelGain(tokens, pt, k) ==
    LET n == Len(tokens)
        anchor == tokens[n - k]
        tail_rev == [t \in 1..k |-> tokens[n + 1 - t]] \o <<anchor>>
    IN  CountTail(pt, <<anchor>>) > CountTail(pt, tail_rev)

\* PeelK trying the smallest k first
PeelKSmallestFirst(tokens, pt, max_k) ==
    LET ks == {k \in 1..Min(max_k, Len(tokens) - 1) : PeelGain(tokens, pt, k)}
    IN  IF ks = {} THEN 0 ELSE CHOOSE k \in ks : \A j \in ks : k <= j

\* the number of tokens one step peels, 0 if none: the largest k from
\* min(max_k, n - 1) down to 1 with a gain
PeelK(tokens, pt, max_k) ==
    LET ks == {k \in 1..Min(max_k, Len(tokens) - 1) : PeelGain(tokens, pt, k)}
    IN  IF ks = {} THEN 0 ELSE CHOOSE k \in ks : \A j \in ks : j <= k

\* one step dropping the first k tokens instead of the last k
PeelOnceFromFront(tokens, pt, max_k) ==
    SubSeq(tokens, PeelK(tokens, pt, max_k) + 1, Len(tokens))

\* tokens after one step of the outer loop
PeelOnce(tokens, pt, max_k) ==
    SubSeq(tokens, 1, Len(tokens) - PeelK(tokens, pt, max_k))

RECURSIVE PeelSteps(_, _, _, _, _)
\* the outer loop from step s on
PeelSteps(tokens, pt, steps, max_k, s) ==
    IF s >= steps THEN tokens
    ELSE IF Len(tokens) < 2 THEN tokens
    ELSE IF PeelK(tokens, pt, max_k) = 0 THEN tokens
    ELSE PeelSteps(PeelOnce(tokens, pt, max_k), pt, steps, max_k, s + 1)

\* tokens as the call leaves them
PeelEndTokensInPlace(tokens, pt, steps, max_k) ==
    LET st == IF steps < 0 THEN 0 ELSE steps
        mk == IF max_k < 1 THEN 1 ELSE max_k
    IN  IF pt.root = NullPtr \/ Len(tokens) < 2 \/ st = 0 THEN tokens
        ELSE PeelSteps(tokens, pt, st, mk, 0)

(***************************************************************************)
(* Candidate enumerator (find_candidates.cpp).  The file carries its own   *)
(* copies of FindChild, ResolveUniqueTerminal and the acceptance test,     *)
(* with the same text as those of address_lookup.cpp, and its own          *)
(* constants.                                                              *)
(***************************************************************************)
\* SKIP_MIN_LOCAL_COUNT, SKIP_MAX_IN_WALK, MIN_MATCHED_TOKENS,
\* ENTRY_MIN_LOCAL_COUNT and MAX_TRIE_ENTRY_DEPTH
WalkBestConstants ==
    [skip_min_local_count |-> 10, skip_max_in_walk |-> 2, min_matched_tokens |-> 2,
     entry_min_local_count |-> 10, max_trie_entry_depth |-> 2]

TryAcceptExact(node, start_index, tokens_consumed, total_tokens) ==
    TryAcceptCurrentNode(WalkBestConstants, node, start_index, tokens_consumed,
                         total_tokens)

RECURSIVE CollectFrom(_, _)
\* CollectUPRNs over the kids of node from the k-th on
CollectFrom(node, k) ==
    IF k > Len(node.kids) THEN <<>>
    ELSE (IF node.kids[k].node.term = 1 THEN <<node.kids[k].node.uprn>> ELSE <<>>)
         \o CollectFrom(node.kids[k].node, 1) \o CollectFrom(node, k + 1)

\* out after CollectUPRNs(node, out) on an empty out
CollectUPRNs(node) ==
    IF node = NullPtr THEN <<>>
    ELSE (IF node.term = 1 THEN <<node.uprn>> ELSE <<>>) \o CollectFrom(node, 1)

RECURSIVE BestLoop(_, _, _, _, _, _)
\* one iteration of the while loop of WalkBest at node with i tokens
\* consumed, child being FindChild(node, tok) and hop the landing of the
\* lookahead
BestIteration(tokens, s, node, i, skips_used, trace, child, hop) ==
    LET N == Len(tokens)
        direct == TryAcceptExact(child, s, i + 1, N)
        landed == TryAcceptExact(hop.node, s, i + hop.delta + 1, N)
        stepped == Append(trace, [token |-> tokens[N - i], cnt |-> child.cnt])
        hopped == Append(trace, [token |-> tokens[N - (i + hop.delta)],
                                 cnt |-> hop.node.cnt])
    IN  IF child # NullPtr
        THEN (IF direct.ok
              THEN [exact |-> TRUE, uprn |-> direct.uprn, node |-> child, i |-> i + 1,
                    trace |-> stepped]
              ELSE BestLoop(tokens, s, child, i + 1, skips_used, stepped))
        ELSE IF skips_used < WalkBestConstants.skip_max_in_walk /\ hop.node # NullPtr
        THEN (IF landed.ok
              THEN [exact |-> TRUE, uprn |-> landed.uprn, node |-> hop.node,
                    i |-> i + hop.delta + 1, trace |-> hopped]
              ELSE BestLoop(tokens, s, hop.node, i + hop.delta + 1,
                            skips_used + hop.delta, hopped))
        ELSE [exact |-> FALSE, uprn |-> Zero64, node |-> node, i |-> i, trace |-> trace]

\* the while loop of one attempt of WalkBest: [exact, uprn, node, i, trace]
\* at the early return or at the end of the loop
BestLoop(tokens, s, node, i, skips_used, trace) ==
    LET N == Len(tokens)
        max_lookahead == Min(WalkBestConstants.skip_max_in_walk - skips_used,
                             (N - 1) - i)
    IN  IF i >= N
        THEN [exact |-> FALSE, uprn |-> Zero64, node |-> node, i |-> i, trace |-> trace]
        ELSE CHOOSE r \in
                 {BestIteration(tokens, s, node, i, skips_used, trace, child, hop) :
                     child \in {LookupFindChild(node, tokens[N - i])},
                     hop \in {Lookahead(node, tokens, i, max_lookahead,
                                         WalkBestConstants)}} : TRUE

\* wr after the attempt l that did not accept (the "best attempt" record)
RecordBest(wr, l, s, N) ==
    LET consumed == IF l.i > s THEN l.i - s ELSE 0
        better == [wr EXCEPT !.final_node = l.node, !.tokens_exhausted = (l.i >= N),
                             !.best_trace = l.trace]
    IN  IF consumed > wr.best_consumed
        THEN [better EXCEPT !.best_consumed = consumed]
        ELSE IF consumed = wr.best_consumed
                /\ (wr.final_node = NullPtr \/ l.node.cnt < wr.final_node.cnt)
        THEN better
        ELSE wr

\* the start offsets WalkBest tries: for (s = 0; s < N; ++s)
StartsOfWalkBest(N) == 0..(N - 1)

RECURSIVE WalkBestFrom(_, _, _, _, _)
\* the body of the inner for loop of WalkBest after the early check, l
\* being what the while loop gave
BestAttempt(tokens, entry_nodes, s, e, wr, l) ==
    IF l.exact
    THEN [exact |-> TRUE, exact_uprn |-> l.uprn, final_node |-> l.node,
          best_consumed |-> l.i - s, tokens_exhausted |-> (l.i = Len(tokens)),
          best_trace |-> l.trace]
    ELSE CHOOSE r \in {WalkBestFrom(tokens, entry_nodes, s, e + 1, best) :
                          best \in {RecordBest(wr, l, s, Len(tokens))}} : TRUE

\* the two for loops of WalkBest from start s, e-th entry node on
WalkBestFrom(tokens, entry_nodes, s, e, wr) ==
    LET N == Len(tokens)
        early == TryAcceptExact(entry_nodes[e], s, s, N)
    IN  IF s \notin StartsOfWalkBest(N) THEN wr
        ELSE IF e > Len(entry_nodes) THEN WalkBestFrom(tokens, entry_nodes, s + 1, 1, wr)
        ELSE IF early.ok
        THEN [exact |-> TRUE, exact_uprn |-> early.uprn, final_node |-> entry_nodes[e],
              best_consumed |-> 0, tokens_exhausted |-> (s = N), best_trace |-> <<>>]
        ELSE CHOOSE r \in {BestAttempt(tokens, entry_nodes, s, e, wr, l) :
                              l \in {BestLoop(tokens, s, entry_nodes[e], s, 0, <<>>)}} :
                     TRUE

\* a default-constructed WalkResult
NoWalkResult ==
    [exact |-> FALSE, exact_uprn |-> Zero64, final_node |-> NullPtr,
     best_consumed |-> 0, tokens_exhausted |-> FALSE, best_trace |-> <<>>]

WalkBest(rt, tokens) ==
    IF rt = NullPtr \/ tokens = <<>> THEN NoWalkResult
    ELSE CHOOSE r \in {WalkBestFrom(tokens, entry_nodes, 0, 1, NoWalkResult) :
                          entry_nodes \in {EntryNodes(rt, WalkBestConstants)}} : TRUE

\* the row find_candidates returns for a parsed trie and a non-empty list
FindCandidatesScalar(trie, toks) ==
    LET wr == WalkBest(trie.root, toks)
    IN  [status |-> IF wr.exact THEN "exact"
                    ELSE IF wr.best_consumed = 0 THEN "ambiguous" ELSE "impossible",
         uprns |-> IF wr.exact THEN <<wr.exact_uprn>> ELSE CollectUPRNs(wr.final_node),
         tokens |-> wr.best_trace]

(***************************************************************************)
(* The readers of a parsed trie, one loop iteration at a time, as they run *)
(* when several calls share one ParsedTrie.  A pointer to a PNode is the   *)
(* path of kid indexes from the root ([path |-> ...]) or NullPtr, read     *)
(* through the shared root at every step.  Each step yields the root as    *)
(* the step leaves it and the reader's next local state.                   *)
(***************************************************************************)
RootP == [path |-> <<>>]

RECURSIVE NodeAt(_, _, _)
NodeAt(n, path, i) ==
    IF i > Len(path) THEN n ELSE NodeAt(n.kids[path[i]].node, path, i + 1)

\* *p
Deref(rt, p) == NodeAt(rt, p.path, 1)

\* FindChild(p, tok) as a pointer
ChildP(rt, p, tok) ==
    LET node == Deref(rt, p)
        hit == FindChild(node, tok)
    IN  IF hit = NullPtr THEN NullPtr
        ELSE [path |-> Append(p.path,
                 CHOOSE k \in 1..Len(node.kids) :
                     node.kids[k].tok = tok /\ node.kids[k].node = hit)]

\* the local state a call starts with
StartReader(call) ==
    IF call.fn = "WalkExact"
    THEN [pc |-> "run", call |-> call, ti |-> Len(call.toks), n |-> RootP]
    ELSE IF call.fn = "PrecomputeSuffixCounts"
    THEN [pc |-> "run", call |-> call, t |-> 0, node |-> RootP,
          counts_out |-> [i \in 1..Len(call.toks) |-> 0]]
    ELSE IF call.fn = "GreedyWalkWithSkips"
    THEN [pc |-> "run", call |-> call, ti |-> Len(call.toks), node |-> RootP,
          skips_left |-> Max(call.max_skips, 0),
          best_last |-> NullPtr, best_len |-> 0, curr_len |-> 0,
          res |-> [last_node |-> NullPtr, deepest_unique |-> NullPtr,
                   matched_len |-> 0, skipped |-> 0]]
    ELSE IF call.fn = "FindAddressExact"
    THEN [pc |-> "run", call |-> call, s |-> 0, e |-> 1]
    ELSE [pc |-> "run", call |-> call, s |-> 0, tokens |-> call.toks]

\* one iteration of the for loop of WalkExact writing the count of the root
WalkExactStepCounting(rt, r) ==
    LET next == ChildP(rt, r.n, r.call.toks[r.ti])
    IN  IF r.ti = 0
        THEN [root |-> rt, r |-> [pc |-> "done", call |-> r.call, res |-> r.n]]
        ELSE IF next = NullPtr
        THEN [root |-> rt, r |-> [pc |-> "done", call |-> r.call, res |-> NullPtr]]
        ELSE [root |-> [rt EXCEPT !.cnt = @ + 1],
              r |-> [r EXCEPT !.n = next, !.ti = @ - 1]]

\* one iteration of the for loop of WalkExact, or its return
WalkExactStep(rt, r) ==
    LET next == ChildP(rt, r.n, r.call.toks[r.ti])
    IN  IF r.ti = 0
        THEN [root |-> rt, r |-> [pc |-> "done", call |-> r.call, res |-> r.n]]
        ELSE IF next = NullPtr
        THEN [root |-> rt, r |-> [pc |-> "done", call |-> r.call, res |-> NullPtr]]
        ELSE [root |-> rt, r |-> [r EXCEPT !.n = next, !.ti = @ - 1]]

\* one iteration of the for loop of PrecomputeSuffixCounts, or its return
PrecomputeStep(rt, r) ==
    LET n == Len(r.call.toks)
        next == ChildP(rt, r.node, r.call.toks[n - r.t])
    IN  IF r.t >= n
        THEN [root |-> rt,
              r |-> [pc |-> "done", call |-> r.call, res |-> r.counts_out]]
        ELSE IF next = NullPtr
        THEN [root |-> rt,
              r |-> [pc |-> "done", call |-> r.call, res |-> r.counts_out]]
        ELSE [root |-> rt,
              r |-> [r EXCEPT !.node = next, !.t = @ + 1,
                              !.counts_out[n - r.t] = Deref(rt, next).cnt]]

\* res.deepest_unique after the walk moved to node p
DeepestAfter(rt, res, p) ==
    IF Deref(rt, p).term = 1 /\ Deref(rt, p).uprn # Zero64
    THEN p ELSE res.deepest_unique

\* the return of GreedyWalkWithSkips
GreedyReturn(r) ==
    [pc |-> "done", call |-> r.call,
     res |-> IF r.call.allow_prefix /\ r.best_last # NullPtr
             THEN [r.res EXCEPT !.last_node = r.best_last,
                                !.matched_len = r.best_len]
             ELSE r.res]

\* the reader after it moved to node p having consumed the tokens down to
\* ti, skipped many of them skipped
GreedyMove(rt, r, p, ti, skipped, curr_len) ==
    [r EXCEPT !.node = p, !.ti = ti,
              !.skips_left = IF skipped THEN @ - 1 ELSE @,
              !.curr_len = curr_len,
              !.best_len = IF r.call.allow_prefix /\ curr_len > @
                           THEN curr_len ELSE @,
              !.best_last = IF r.call.allow_prefix /\ curr_len > r.best_len
                            THEN p ELSE @,
              !.res = [last_node |-> p,
                       deepest_unique |-> DeepestAfter(rt, r.res, p),
                       matched_len |-> IF r.call.allow_prefix THEN @.matched_len
                                       ELSE @.matched_len + 1,
                       skipped |-> IF skipped THEN @.skipped + 1 ELSE @.skipped]]

\* one iteration of the for loop of GreedyWalkWithSkips (of either mode),
\* or its return
GreedyStep(rt, r) ==
    LET toks == r.call.toks
        next == ChildP(rt, r.node, toks[r.ti])
        after == ChildP(rt, r.node, toks[r.ti - 1])
        again == ChildP(rt, RootP, toks[r.ti])
        reset == [r EXCEPT !.node = RootP, !.ti = @ - 1,
                           !.skips_left = Max(r.call.max_skips, 0),
                           !.curr_len = 0]
    IN  IF r.ti = 0 THEN [root |-> rt, r |-> GreedyReturn(r)]
        ELSE IF next # NullPtr
        THEN [root |-> rt,
              r |-> GreedyMove(rt, r, next, r.ti - 1, FALSE, r.curr_len + 1)]
        ELSE IF r.skips_left > 0 /\ r.ti > 1 /\ after # NullPtr
        THEN [root |-> rt,
              r |-> GreedyMove(rt, r, after, r.ti - 2, TRUE, r.curr_len + 1)]
        ELSE IF ~r.call.allow_prefix THEN [root |-> rt, r |-> GreedyReturn(r)]
        ELSE IF again # NullPtr
        THEN [root |-> rt, r |-> GreedyMove(rt, reset, again, r.ti - 1, FALSE, 1)]
        ELSE [root |-> rt, r |-> reset]

\* one walk attempt of FindAddressExact (start r.s, entry node r.e), or its
\* return
FindStep(rt, r) ==
    LET N == Len(r.call.toks)
        entry_nodes == EntryNodes(rt, r.call.params)
        max_start == Min(r.call.params.max_trailing_tokens_ignored, N - 1)
        a == WalkAttempt(r.call.toks, r.call.params, r.s, entry_nodes[r.e])
    IN  IF N = 0 \/ r.s > max_start
        THEN [root |-> rt,
              r |-> [pc |-> "done", call |-> r.call,
                     res |-> [ok |-> FALSE, uprn |-> Zero64]]]
        ELSE IF a.ok
        THEN [root |-> rt, r |-> [pc |-> "done", call |-> r.call, res |-> a]]
        ELSE IF r.e < Len(entry_nodes)
        THEN [root |-> rt, r |-> [r EXCEPT !.e = @ + 1]]
        ELSE [root |-> rt, r |-> [r EXCEPT !.s = @ + 1, !.e = 1]]

\* one iteration of the outer loop of PeelEndTokensInPlace, or its return
PeelStep(rt, r) ==
    LET steps == Max(r.call.steps, 0)
        max_k == Max(r.call.max_k, 1)
    IN  IF \/ Len(r.tokens) < 2 \/ r.s >= steps
           \/ PeelK(r.tokens, [root |-> rt], max_k) = 0
        THEN [root |-> rt,
              r |-> [pc |-> "done", call |-> r.call, res |-> r.tokens]]
        ELSE [root |-> rt,
              r |-> [r EXCEPT !.s = @ + 1,
                              !.tokens = PeelOnce(r.tokens, [root |-> rt], max_k)]]

ReaderStep(rt, r) ==
    IF r.call.fn = "WalkExact" THEN WalkExactStep(rt, r)
    ELSE IF r.call.fn = "PrecomputeSuffixCounts" THEN PrecomputeStep(rt, r)
    ELSE IF r.call.fn = "GreedyWalkWithSkips" THEN GreedyStep(rt, r)
    ELSE IF r.call.fn = "FindAddressExact" THEN FindStep(rt, r)
    ELSE PeelStep(rt, r)

RECURSIVE RunReader(_, _)
\* a call run from local state r to its return with nothing in between:
\* the root and the reader as the call leaves them
RunReader(rt, r) ==
    IF r.pc = "done" THEN [root |-> rt, r |-> r]
    ELSE RunReader(ReaderStep(rt, r).root, ReaderStep(rt, r).r)

(***************************************************************************)
(* Diagnostic entry point (find_address_from_trie_classify.cpp).  The      *)
(* result of one row is [status, has_uprn, uprn, matched_len,              *)
(* consumed_all_tokens, node_cnt, term]; has_uprn is the validity of the   *)
(* uprn field.                                                             *)
(***************************************************************************)
\* max_skips as ClassifyExec clamps the argument: at most one
ClampSkips(v) == IF v < 0 THEN 0 ELSE IF v > 1 THEN 1 ELSE v

\* the fields a non-null row starts with
ClassifyDefaults ==
    [status |-> "NO_PATH", has_uprn |-> FALSE, uprn |-> Zero64, matched_len |-> 0,
     consumed_all_tokens |-> FALSE, node_cnt |-> 0, term |-> 0]

RECURSIVE StrictWalk(_, _, _, _, _, _)
\* the loop of the branch without allow_prefix, with toks[1..ti] left
StrictWalk(node, last_node, matched_len, skips_left, toks, ti) ==
    IF ti = 0 THEN [last_node |-> last_node, matched_len |-> matched_len]
    ELSE LET next == FindChild(node, toks[ti])
         IN  IF next # NullPtr
             THEN StrictWalk(next, next, matched_len + 1, skips_left, toks, ti - 1)
             ELSE IF skips_left > 0
             THEN StrictWalk(node, last_node, matched_len, skips_left - 1, toks, ti - 1)
             ELSE [last_node |-> last_node, matched_len |-> matched_len]

\* FinalStatus calling a walk that stopped early on a non-terminal node
\* insufficient
FinalStatusInsufficientOnStop(r, final, zero_is_no_path) ==
    IF r.consumed_all_tokens
    THEN IF final # NullPtr /\ final.term = 1 /\ final.uprn # Zero64
         THEN [r EXCEPT !.status = "EXACT", !.uprn = final.uprn, !.has_uprn = TRUE]
         ELSE IF final # NullPtr /\ final.term = 0
         THEN [r EXCEPT !.status = "INSUFFICIENT"]
         ELSE [r EXCEPT !.status = "AMBIGUOUS"]
    ELSE IF zero_is_no_path /\ r.matched_len = 0 THEN [r EXCEPT !.status = "NO_PATH"]
    ELSE IF final # NullPtr /\ final.term = 0 THEN [r EXCEPT !.status = "INSUFFICIENT"]
    ELSE IF final # NullPtr /\ final.cnt > 1 THEN [r EXCEPT !.status = "AMBIGUOUS"]
    ELSE [r EXCEPT !.status = "NO_PATH"]

\* FinalStatus taking every terminal node reached with all tokens for an exact
\* match
FinalStatusAnyTerminal(r, final, zero_is_no_path) ==
    IF r.consumed_all_tokens
    THEN IF final # NullPtr /\ final.term >= 1
         THEN [r EXCEPT !.status = "EXACT", !.uprn = final.uprn, !.has_uprn = TRUE]
         ELSE [r EXCEPT !.status = "INSUFFICIENT"]
    ELSE IF zero_is_no_path /\ r.matched_len = 0 THEN [r EXCEPT !.status = "NO_PATH"]
    ELSE IF final # NullPtr /\ final.cnt > 1 THEN [r EXCEPT !.status = "AMBIGUOUS"]
    ELSE [r EXCEPT !.status = "NO_PATH"]

\* status and uprn once the final node, if any, is known; the branch without
\* allow_prefix tells zero progress apart before it looks at the node
FinalStatus(r, final, zero_is_no_path) ==
    IF r.consumed_all_tokens
    THEN IF final # NullPtr /\ final.term = 1 /\ final.uprn # Zero64
         THEN [r EXCEPT !.status = "EXACT", !.uprn = final.uprn, !.has_uprn = TRUE]
         ELSE IF final # NullPtr /\ final.term = 0
         THEN [r EXCEPT !.status = "INSUFFICIENT"]
         ELSE [r EXCEPT !.status = "AMBIGUOUS"]
    ELSE IF zero_is_no_path /\ r.matched_len = 0 THEN [r EXCEPT !.status = "NO_PATH"]
    ELSE IF final # NullPtr /\ final.cnt > 1 THEN [r EXCEPT !.status = "AMBIGUOUS"]
    ELSE [r EXCEPT !.status = "NO_PATH"]

\* the branch of ClassifyExec without allow_prefix
ClassifyStrict(rt, toks, max_skips) ==
    LET w == StrictWalk(rt, NullPtr, 0, max_skips, toks, Len(toks))
        r == [ClassifyDefaults EXCEPT
                 !.consumed_all_tokens = (w.matched_len = Len(toks)),
                 !.matched_len = w.matched_len,
                 !.node_cnt = IF w.last_node # NullPtr THEN w.last_node.cnt ELSE 0,
                 !.term = IF w.last_node # NullPtr THEN w.last_node.term ELSE 0]
    IN  FinalStatus(r, w.last_node, TRUE)

RECURSIVE PrefixToken(_, _, _, _, _)
\* the while (true) of the allow_prefix branch for one token; st is
\* [node, current_len, best_matched_len, best_last_node, skips_left]
PrefixToken(rt, st, tok, max_skips, reattempt) ==
    LET next == FindChild(st.node, tok)
    IN  IF next # NullPtr
        THEN [st EXCEPT
                !.node = next,
                !.current_len = st.current_len + 1,
                !.best_matched_len =
                    IF st.current_len + 1 > st.best_matched_len
                    THEN st.current_len + 1 ELSE st.best_matched_len,
                !.best_last_node =
                    IF st.current_len + 1 > st.best_matched_len
                    THEN next ELSE st.best_last_node]
        ELSE IF st.skips_left > 0
        THEN [st EXCEPT !.skips_left = st.skips_left - 1]
        ELSE IF st.node # rt /\ reattempt
        THEN PrefixToken(rt, [st EXCEPT !.node = rt, !.skips_left = max_skips,
                                        !.current_len = 0],
                         tok, max_skips, FALSE)
        ELSE [st EXCEPT !.node = rt, !.skips_left = max_skips, !.current_len = 0]

RECURSIVE PrefixWalk(_, _, _, _, _)
\* the loop of the allow_prefix branch, with toks[1..ti] left
PrefixWalk(rt, st, toks, max_skips, ti) ==
    IF ti = 0 THEN st
    ELSE PrefixWalk(rt, PrefixToken(rt, st, toks[ti], max_skips, TRUE),
                    toks, max_skips, ti - 1)

\* the allow_prefix branch of ClassifyExec
ClassifyPrefix(rt, toks, max_skips) ==
    LET st == PrefixWalk(rt, [node |-> rt, current_len |-> 0, best_matched_len |-> 0,
                              best_last_node |-> NullPtr, skips_left |-> max_skips],
                         toks, max_skips, Len(toks))
        final == st.best_last_node
        r == [ClassifyDefaults EXCEPT
                 !.matched_len = st.best_matched_len,
                 !.consumed_all_tokens = (st.best_matched_len = Len(toks))]
    IN  IF final = NullPtr THEN r
        ELSE FinalStatus([r EXCEPT !.node_cnt = final.cnt, !.term = final.term],
                         final, FALSE)

\* ClassifyExec for one row with a usable trie; skips is the fourth argument
ClassifyExec(trie, toks, allow_prefix, skips) ==
    IF Len(toks) = 0 THEN ClassifyDefaults
    ELSE IF ~allow_prefix THEN ClassifyStrict(trie.root, toks, ClampSkips(skips))
    ELSE ClassifyPrefix(trie.root, toks, ClampSkips(skips))

(***************************************************************************)
(* Trie cache (suffix_trie_cache.hpp, trie_cache_utils.cpp).  A uint64_t   *)
(* hash or key is the sequence of its eight bytes, low byte first.  The    *)
(* lru_list is a sequence of CacheItems, front first; each item carries,   *)
(* besides key and value, the identity of its list node, which a splice    *)
(* keeps.  cache_map maps a key to the iterator it stores: a list node.    *)
(***************************************************************************)
MAX_CACHE_SIZE == 64

\* 14695981039346656037 = 0xCBF29CE484222325
FNV_OFFSET_BASIS == <<37, 35, 34, 132, 228, 156, 242, 203>>

RECURSIVE Xor8(_, _, _)
\* a ^ b on the low n bits
Xor8(a, b, n) ==
    IF n = 0 THEN 0
    ELSE (((a % 2) + (b % 2)) % 2) + 2 * Xor8(a \div 2, b \div 2, n - 1)

RECURSIVE MulPrimeFrom(_, _, _)
\* hash *= FNV_PRIME, 1099511628211 = 2^40 + 2^8 + 179, byte k on (k from 1),
\* modulo 2^64
MulPrimeFrom(h, k, carry) ==
    IF k > 8 THEN <<>>
    ELSE LET t == 179 * h[k] + (IF k > 1 THEN h[k - 1] ELSE 0)
                    + (IF k > 5 THEN h[k - 5] ELSE 0) + carry
         IN  <<(t % 256)>> \o MulPrimeFrom(h, k + 1, t \div 256)

RECURSIVE HashFrom(_, _, _)
\* the loop of FNV1aHash64 from data[i] on (i from 1)
HashFrom(hash, data, i) ==
    IF i > Len(data) THEN hash
    ELSE CHOOSE r \in
             {HashFrom(next, data, i + 1) :
                 next \in {MulPrimeFrom(h, 1, 0) :
                              h \in {[hash EXCEPT ![1] = Xor8(hash[1], data[i], 8)]}}} :
             TRUE

FNV1aHash64(data) == HashFrom(FNV_OFFSET_BASIS, data, 1)

EmptyCache == [lru_list |-> <<>>, cache_map |-> [k \in {} |-> 0]]

\* the keys cache_map.find finds
Keys(c) == DOMAIN c.cache_map

\* position in lru_list of the item the iterator cache_map holds for key
\* points to
ItemIndex(c, key) == CHOOSE i \in 1..Len(c.lru_list) : c.lru_list[i].node = c.cache_map[key]

\* lru_list.splice(lru_list.begin(), lru_list, it): item i moves to the front
Splice(l, i) == <<l[i]>> \o SubSeq(l, 1, i - 1) \o SubSeq(l, i + 1, Len(l))

\* the list node emplace_front allocates: one not in the list
NewNode(l) ==
    CHOOSE n \in 1..(Len(l) + 1) :
        /\ \A i \in 1..Len(l) : l[i].node # n
        /\ \A m \in 1..(n - 1) : \E i \in 1..Len(l) : l[i].node = m

\* Get that returns the value and leaves the list as it is
GetNoPromote(c, key) ==
    IF key \notin Keys(c) THEN [cache |-> c, value |-> NullPtr]
    ELSE [cache |-> c, value |-> c.lru_list[ItemIndex(c, key)].value]

\* TrieCache::Get: the cache afterwards and the value returned (NullPtr: miss)
Get(c, key) ==
    IF key \notin Keys(c) THEN [cache |-> c, value |-> NullPtr]
    ELSE LET i == ItemIndex(c, key)
         IN  [cache |-> [c EXCEPT !.lru_list = Splice(c.lru_list, i)],
              value |-> c.lru_list[i].value]

\* Put that never evicts
PutNoEvict(c, key, value) ==
    IF key \in Keys(c)
    THEN LET i == ItemIndex(c, key)
         IN  [c EXCEPT !.lru_list = Splice([c.lru_list EXCEPT ![i].value = value], i)]
    ELSE LET l == <<[key |-> key, value |-> value, node |-> NewNode(c.lru_list)]>>
                  \o c.lru_list
         IN  [lru_list |-> l,
              cache_map |-> [k \in Keys(c) \cup {key} |->
                                IF k = key THEN l[1].node ELSE c.cache_map[k]]]

\* Put that inserts a new item also for a key the cache holds
PutAlwaysInserts(c, key, value) ==
    LET l == <<[key |-> key, value |-> value, node |-> NewNode(c.lru_list)]>>
             \o c.lru_list
        m == [k \in Keys(c) \cup {key} |-> IF k = key THEN l[1].node ELSE c.cache_map[k]]
    IN  IF Cardinality(DOMAIN m) > MAX_CACHE_SIZE
        THEN [lru_list |-> SubSeq(l, 1, Len(l) - 1),
              cache_map |-> [k \in DOMAIN m \ {l[Len(l)].key} |-> m[k]]]
        ELSE [lru_list |-> l, cache_map |-> m]

\* TrieCache::Put
Put(c, key, value) ==
    IF key \in Keys(c)
    THEN LET i == ItemIndex(c, key)
         IN  [c EXCEPT !.lru_list = Splice([c.lru_list EXCEPT ![i].value = value], i)]
    ELSE LET l == <<[key |-> key, value |-> value, node |-> NewNode(c.lru_list)]>>
                  \o c.lru_list
             m == [k \in Keys(c) \cup {key} |->
                      IF k = key THEN l[1].node ELSE c.cache_map[k]]
         IN  IF Cardinality(DOMAIN m) > MAX_CACHE_SIZE
             THEN [lru_list |-> SubSeq(l, 1, Len(l) - 1),
                   cache_map |-> [k \in DOMAIN m \ {l[Len(l)].key} |-> m[k]]]
             ELSE [lru_list |-> l, cache_map |-> m]

\* TrieCache::Size
Size(c) == Cardinality(DOMAIN c.cache_map)

\* GetOrParseTrie after cache.Get(key) found nothing: g is what Get gave,
\* parsed what ParseQCK2 gave
ParseAndPut(g, key, parsed) ==
    IF parsed.st = "throw" THEN [cache |-> g.cache, st |-> "throw", value |-> NullPtr]
    ELSE IF parsed.st = "fail" THEN [cache |-> g.cache, st |-> "ok", value |-> NullPtr]
    ELSE [cache |-> Put(g.cache, key, [root |-> parsed.root]), st |-> "ok",
          value |-> [root |-> parsed.root]]

\* GetOrParseTrie once the key is computed
GetOrParseKey(c, key, data, mem) ==
    CHOOSE out \in
        {IF g.value # NullPtr THEN [cache |-> g.cache, st |-> "ok", value |-> g.value]
         ELSE CHOOSE o \in {ParseAndPut(g, key, parsed) :
                               parsed \in {ParseQCK2(data, mem)}} : TRUE :
            g \in {Get(c, key)}} : TRUE

\* the outcome of GetOrParseTrie(cache, blob): the cache afterwards, st "ok"
\* with the value returned (NullPtr for nullptr) or "throw"
GetOrParseTrie(c, data, mem) ==
    CHOOSE out \in {GetOrParseKey(c, key, data, mem) : key \in {FNV1aHash64(data)}} :
        TRUE

(***************************************************************************)
(* State.                                                                  *)
(*   root[b]  BuildTrieState.root of aggregate state b: a TrieNode or      *)
(*            NullPtr once released                                        *)
(*   log[b]   history: the rows that reached state b, [toks, uprn, via],   *)
(*            via "update" or "combine"                                    *)
(*   blob     the BLOB in flight (the last StateFinalize result, possibly  *)
(*            damaged afterwards)                                          *)
(*   made     history: the builder root and rows the BLOB was made of      *)
(*   kind     history: "none" nothing finalized yet, "null" a NULL result, *)
(*            "valid" the BLOB as finalized, "prefix" cut short, "extra"   *)
(*            bytes appended, "overwrite" a byte replaced                  *)
(*   pres     outcome of the last ParseQCK2(blob)                          *)
(*   walk     the WalkExact call on the parsed trie, if that was the last  *)
(*            call, and its result                                         *)
(*   find     the FindAddressExact call on the parsed trie, if that was    *)
(*            the last call, and its result                                *)
(*   cache    one TrieCache: lru_list and cache_map                        *)
(*   hist     history of the cache: a clock of Get/Put calls and, per key, *)
(*            the clock of its most recent Get hit or Put                  *)
(*   got      the last call on the cache and what it returned              *)
(*   query    the last diagnostic, candidate or peel call and its result   *)
(***************************************************************************)
NoParse == [st |-> "none"]

NoWalk == [called |-> FALSE]

NoFind == [called |-> FALSE]

NoBlob == [trie |-> NullPtr, rows |-> <<>>]

NoHist == [clock |-> 0, stamp |-> <<>>]

NoGot == [op |-> "none"]

NoQuery == [fn |-> "none"]

\* a reader slot no call occupies
Idle == [pc |-> "idle"]

NoReaders == [k \in Readers |-> Idle]

\* per aggregate state, how often its root was deleted and whether its
\* destructor has run, when the roots are r and no destructor has run
HeapOf(r) ==
    [b \in Builders |->
        [deletes |-> IF r[b] = NullPtr THEN 1 ELSE 0, destructed |-> FALSE]]

\* the rows a StateUpdate call may carry: a non-empty token list and an id
Rows == [toks : TokenLists \ {<<>>}, uprn : Uprns]

RECURSIVE SumLen(_, _)
SumLen(f, S) ==
    IF S = {} THEN 0
    ELSE LET x == CHOOSE y \in S : TRUE IN Len(f[x]) + SumLen(f, S \ {x})

\* StateInit on every aggregate state; no BLOB yet
Init ==
    /\ root = [b \in Builders |-> NewTrieNode]
    /\ log = [b \in Builders |-> <<>>]
    /\ blob = <<>>
    /\ made = NoBlob
    /\ kind = "none"
    /\ pres = NoParse
    /\ walk = NoWalk
    /\ find = NoFind
    /\ cache = EmptyCache
    /\ hist = NoHist
    /\ got = NoGot
    /\ query = NoQuery
    /\ rd = NoReaders
    /\ heap = HeapOf(root)

\* StateUpdate with one valid row for state b; the aggregate's rows and
\* combines all come before its results are finalized
StateUpdate(b, row) ==
    /\ kind = "none"
    /\ root[b] # NullPtr
    /\ SumLen(log, Builders) < MaxInserts
    /\ root' = [root EXCEPT ![b] = InsertReversed(root[b], row.toks, row.uprn)]
    /\ log' = [log EXCEPT ![b] = Append(log[b],
                  [toks |-> row.toks, uprn |-> row.uprn, via |-> "update"])]
    /\ UNCHANGED <<blob, made, kind, pres, walk, find, cache, hist, got, query, rd, heap>>

\* delete st->root for state b
Delete(h, b) == [h EXCEPT ![b].deletes = @ + 1]

\* StateCombine of one (source, target) pair
StateCombine(src, dst) ==
    /\ kind = "none"
    /\ src # dst
    /\ IF root[src] = NullPtr \/ root[dst] = NullPtr
       THEN UNCHANGED <<root, log, heap>>
       ELSE /\ root' = [root EXCEPT ![dst] = MergeTrie(root[dst], root[src]),
                                    ![src] = NullPtr]
            /\ heap' = Delete(heap, src)
            /\ log' = [log EXCEPT
                          ![dst] = log[dst] \o
                                   [k \in 1..Len(log[src]) |->
                                       [log[src][k] EXCEPT !.via = "combine"]],
                          ![src] = <<>>]
    /\ UNCHANGED <<blob, made, kind, pres, walk, find, cache, hist, got, query, rd>>

\* StateFinalize deleting the root without resetting the pointer
StateFinalizeKeepRoot(b) ==
    /\ IF root[b] = NullPtr
       THEN /\ blob' = <<>>
            /\ made' = NoBlob
            /\ kind' = "null"
            /\ UNCHANGED <<root, log, heap>>
       ELSE /\ blob' = FinalizeBytes(root[b])
            /\ made' = [trie |-> root[b], rows |-> log[b]]
            /\ kind' = "valid"
            /\ heap' = Delete(heap, b)
            /\ UNCHANGED <<root, log>>
    /\ pres' = NoParse
    /\ walk' = NoWalk
    /\ find' = NoFind
    /\ UNCHANGED <<cache, hist, got, query, rd>>

\* StateFinalize of state b: the BLOB, or NULL for a released state
StateFinalize(b) ==
    /\ IF root[b] = NullPtr
       THEN /\ blob' = <<>>
            /\ made' = NoBlob
            /\ kind' = "null"
            /\ UNCHANGED <<root, log, heap>>
       ELSE /\ blob' = FinalizeBytes(root[b])
            /\ made' = [trie |-> root[b], rows |-> log[b]]
            /\ kind' = "valid"
            /\ root' = [root EXCEPT ![b] = NullPtr]
            /\ heap' = Delete(heap, b)
            /\ log' = [log EXCEPT ![b] = <<>>]
    /\ pres' = NoParse
    /\ walk' = NoWalk
    /\ find' = NoFind
    /\ UNCHANGED <<cache, hist, got, query, rd>>

\* TrieStateDestructor on state b
TrieStateDestructor(b) ==
    /\ ~heap[b].destructed
    /\ IF root[b] # NullPtr
       THEN /\ root' = [root EXCEPT ![b] = NullPtr]
            /\ heap' = [Delete(heap, b) EXCEPT ![b].destructed = TRUE]
            /\ log' = [log EXCEPT ![b] = <<>>]
       ELSE /\ heap' = [heap EXCEPT ![b].destructed = TRUE]
            /\ UNCHANGED <<root, log>>
    /\ UNCHANGED <<blob, made, kind, pres, walk, find, cache, hist, got, query, rd>>

\* ParseQCK2 on the BLOB in flight, on a host granting mem kid slots
Parse(mem) ==
    /\ kind \notin {"none", "null"}
    /\ pres' = ParseQCK2(blob, mem)
    /\ walk' = NoWalk
    /\ find' = NoFind
    /\ query' = NoQuery
    /\ rd' = NoReaders
    /\ UNCHANGED <<root, log, blob, made, kind, cache, hist, got, heap>>

\* WalkExact on the trie just parsed
Walk(toks) ==
    /\ pres.st = "ok"
    /\ ~walk.called /\ ~find.called /\ query = NoQuery
    /\ walk' = [called |-> TRUE, toks |-> toks,
                node |-> WalkExact([root |-> pres.root], toks)]
    /\ find' = NoFind
    /\ UNCHANGED <<root, log, blob, made, kind, pres, cache, hist, got, query, rd, heap>>

\* values each lookup parameter is drawn from (0 and a small positive one)
ParamValues == {0, 2}

MatchParams ==
    [skip_min_local_count : ParamValues, skip_max_in_walk : ParamValues,
     min_matched_tokens : {0, 1, 2},
     entry_min_local_count : ParamValues, max_trailing_tokens_ignored : ParamValues,
     max_trie_entry_depth : ParamValues]

\* FindAddressExact on the trie just parsed (ExecuteFindAddress parses, or
\* fetches, the BLOB before every lookup)
Find(tokens, params) ==
    /\ pres.st = "ok"
    /\ ~walk.called /\ ~find.called /\ query = NoQuery
    /\ find' = [called |-> TRUE, tokens |-> tokens, params |-> params,
                res |-> FindAddressExact([root |-> pres.root], tokens, params)]
    /\ walk' = NoWalk
    /\ UNCHANGED <<root, log, blob, made, kind, pres, cache, hist, got, query, rd, heap>>

\* a truncated copy of the BLOB arrives instead
Truncate(n) ==
    /\ kind = "valid"
    /\ n < Len(blob)
    /\ blob' = SubSeq(blob, 1, n)
    /\ kind' = "prefix"
    /\ pres' = NoParse
    /\ UNCHANGED <<root, log, made, walk, find, cache, hist, got, query, rd, heap>>

\* bytes written into a damaged BLOB
DamageBytes == {0, 1, 127}

\* a byte follows the complete encoding
AppendExtra(x) ==
    /\ kind \in {"valid", "extra"}
    /\ Len(blob) < Len(FinalizeBytes(made.trie)) + MaxExtra
    /\ blob' = Append(blob, x)
    /\ kind' = "extra"
    /\ pres' = NoParse
    /\ UNCHANGED <<root, log, made, walk, find, cache, hist, got, query, rd, heap>>

\* one byte of the BLOB is replaced
Overwrite(i, x) ==
    /\ kind = "valid"
    /\ i \in 1..Len(blob)
    /\ blob[i] # x
    /\ blob' = [blob EXCEPT ![i] = x]
    /\ kind' = "overwrite"
    /\ pres' = NoParse
    /\ UNCHANGED <<root, log, made, walk, find, cache, hist, got, query, rd, heap>>

Next ==
    \/ \E b \in Builders, row \in Rows : StateUpdate(b, row)
    \/ \E src \in Builders, dst \in Builders : StateCombine(src, dst)
    \/ \E b \in Builders : StateFinalize(b)
    \/ \E mem \in ReserveGrants : Parse(mem)

Spec == Init /\ [][Next]_vars

(***************************************************************************)
(* The life of the aggregate states: rows, combines, finalization and the  *)
(* destructor, which the host runs once on every state.                    *)
(***************************************************************************)
\* the rows fed to the states in these runs
LifeRows ==
    {[toks |-> <<<<65>>>>, uprn |-> U64(9, 1)],
     [toks |-> <<<<65, 66>>, <<65>>>>, uprn |-> Zero64]}

LifeNext ==
    \/ \E b \in Builders, row \in LifeRows : StateUpdate(b, row)
    \/ \E src \in Builders, dst \in Builders : StateCombine(src, dst)
    \/ \E b \in Builders : StateFinalize(b)
    \/ \E b \in Builders : TrieStateDestructor(b)

SpecLife == Init /\ [][LifeNext]_vars

(***************************************************************************)
(* Runs that start from a finalized BLOB: aggregate state 1 took the rows  *)
(* of one bounded row list and was finalized.                              *)
(***************************************************************************)
RECURSIVE BuildFrom(_, _, _)
\* the root after InsertReversed of rows[k..] in order
BuildFrom(rt, rows, k) ==
    IF k > Len(rows) THEN rt
    ELSE BuildFrom(InsertReversed(rt, rows[k].toks, rows[k].uprn), rows, k + 1)

Build(rows) == BuildFrom(NewTrieNode, rows, 1)

OneBuilder == CHOOSE b \in Builders : \A c \in Builders : b <= c

BlobInit ==
    \E rows \in SeqsUpTo(Rows, MaxBlobRows) :
        /\ root = [b \in Builders |-> IF b = OneBuilder THEN NullPtr ELSE NewTrieNode]
        /\ log = [b \in Builders |-> <<>>]
        /\ blob = FinalizeBytes(Build(rows))
        /\ made = [trie |-> Build(rows),
                   rows |-> [k \in 1..Len(rows) |->
                                [toks |-> rows[k].toks, uprn |-> rows[k].uprn,
                                 via |-> "update"]]]
        /\ kind = "valid"
        /\ pres = NoParse
        /\ walk = NoWalk
        /\ find = NoFind
        /\ cache = EmptyCache
        /\ hist = NoHist
        /\ got = NoGot
        /\ query = NoQuery
    /\ rd = NoReaders
    /\ heap = HeapOf(root)

CodecNext ==
    \/ \E n \in 0..Len(blob) : Truncate(n)
    \/ \E x \in DamageBytes : AppendExtra(x)
    \/ \E i \in 1..Len(blob), x \in DamageBytes : Overwrite(i, x)
    \/ \E mem \in ReserveGrants : Parse(mem)

\* a BLOB damaged in storage or transit, then parsed
SpecCodec == BlobInit /\ [][CodecNext]_vars

LookupNext ==
    \/ \E mem \in ReserveGrants : Parse(mem)
    \/ \E toks \in TokenLists : Walk(toks)
    \/ \E tokens \in TokenLists, params \in MatchParams : Find(tokens, params)

\* queries against the parsed BLOB
SpecLookup == BlobInit /\ [][LookupNext]_vars

(***************************************************************************)
(* Calls on one TrieCache.  Keys are interchangeable, so the keys put for  *)
(* the first time are numbered in the order of their first Put; the calls  *)
(* that come back to a key (a Get, or a Put of a key already put) pick it  *)
(* among the oldest keys, those the next evictions are about.              *)
(***************************************************************************)
KeyOf(i) == <<i, 0, 0, 0, 0, 0, 0, 0>>

\* distinct keys put in one run: enough to evict twice
NumKeys == MAX_CACHE_SIZE + 2

TouchKeys == {KeyOf(1), KeyOf(2)}

\* two shared_ptr<const ParsedTrie> values
CacheValues ==
    {[root |-> [cnt |-> c, term |-> 0, uprn |-> Zero64, kids |-> <<>>]] : c \in {0, 1}}

FirstValue == CHOOSE v \in CacheValues : v.root.cnt = 0

\* the keys put so far
KeysPut == DOMAIN hist.stamp

\* one more call; key (if accessed) was used now
Stamp(h, key, accessed) ==
    [clock |-> h.clock + 1,
     stamp |-> IF accessed
               THEN [k \in DOMAIN h.stamp \cup {key} |->
                        IF k = key THEN h.clock + 1 ELSE h.stamp[k]]
               ELSE h.stamp]

\* calls so far that were not the first Put of a key
Touches == hist.clock - Cardinality(KeysPut)

NextFreshKey == KeyOf(Cardinality(KeysPut \ TouchKeys) + Cardinality(TouchKeys) + 1)

\* cache.Get(key)
CacheGet(key) ==
    /\ cache' = Get(cache, key).cache
    /\ got' = [op |-> "Get", key |-> key, value |-> Get(cache, key).value]
    /\ hist' = Stamp(hist, key, Get(cache, key).value # NullPtr)
    /\ UNCHANGED <<root, log, blob, made, kind, pres, walk, find, query, rd, heap>>

\* cache.Put(key, value)
CachePut(key, value) ==
    /\ cache' = Put(cache, key, value)
    /\ got' = [op |-> "Put", key |-> key, value |-> value]
    /\ hist' = Stamp(hist, key, TRUE)
    /\ UNCHANGED <<root, log, blob, made, kind, pres, walk, find, query, rd, heap>>

CacheNext ==
    \/ \E key \in TouchKeys \ KeysPut : CachePut(key, FirstValue)
    \/ /\ TouchKeys \subseteq KeysPut
       /\ Cardinality(KeysPut) < NumKeys
       /\ CachePut(NextFreshKey, FirstValue)
    \/ \E key \in TouchKeys \cap KeysPut, value \in CacheValues :
          Touches < MaxTouches /\ CachePut(key, value)
    \/ \E key \in TouchKeys : Touches < MaxTouches /\ CacheGet(key)

\* Get and Put calls on a cache that starts empty
SpecCache == Init /\ [][CacheNext]_vars

(***************************************************************************)
(* GetOrParseTrie calls on one cache, as each scalar function makes them   *)
(* for the BLOB of every row.  The BLOBs are byte strings a caller can     *)
(* pass: what StateFinalize writes for no row and for one row, a BLOB with *)
(* a flags byte that is not 0, and two encodings of a childless root that  *)
(* differ in cnt, term and uprn.                                           *)
(***************************************************************************)
BlobOfNodeA ==
    <<81, 67, 75, 50, 0, 5, 3, 14, 14, 13, 7, 11, 8, 8, 12, 11, 7, 0, 3, 13, 10,
      0, 0, 0, 0>>

BlobOfNodeB ==
    <<81, 67, 75, 50, 0, 12, 8, 0, 13, 2, 2, 5, 3, 1, 2, 2, 5, 2, 4, 15, 1,
      0, 0, 0, 0>>

LookupBlobs ==
    {FinalizeBytes(NewTrieNode),
     FinalizeBytes(InsertReversed(NewTrieNode, <<<<65>>>>, U64(9, 1))),
     <<81, 67, 75, 50, 1>> \o SubSeq(FinalizeBytes(NewTrieNode), 6, 25),
     BlobOfNodeA, BlobOfNodeB}

\* GetOrParseTrie(cache, data) on a host granting mem kid slots
CachedParse(data, mem) ==
    /\ hist.clock < MaxLookups
    /\ \E r \in {GetOrParseTrie(cache, data, mem)} :
          /\ cache' = r.cache
          /\ got' = [op |-> "GetOrParseTrie", data |-> data, st |-> r.st,
                     value |-> r.value]
          /\ hist' = Stamp(hist, FNV1aHash64(data), r.value # NullPtr)
    /\ UNCHANGED <<root, log, blob, made, kind, pres, walk, find, query, rd, heap>>

MemoNext == \E data \in LookupBlobs, mem \in ReserveGrants : CachedParse(data, mem)

\* the BLOB column of the rows one function instance is called with
SpecMemo == Init /\ [][MemoNext]_vars

\* the BLOB of an empty trie with the high byte of the root's child_count
\* overwritten: child_count 0x7F000000 and no byte after it
BlobHugeChildCount == SubSeq(FinalizeBytes(NewTrieNode), 1, 24) \o <<127>>

ProbeBlobs == LookupBlobs \cup {BlobHugeChildCount}

ProbeNext ==
    \/ \E data \in ProbeBlobs, mem \in ReserveGrants : CachedParse(data, mem)
    \/ \E data \in ProbeBlobs :
          hist.clock < MaxLookups /\ CacheGet(FNV1aHash64(data))

\* GetOrParseTrie calls, sound and corrupted BLOBs alike, and Get calls on
\* one cache
SpecProbe == Init /\ [][ProbeNext]_vars

(***************************************************************************)
(* Runs of the peeler on the parsed BLOB.                                  *)
(***************************************************************************)
\* lists long enough to be peeled twice
PeelLists == SeqsUpTo(Tokens, MaxToks + 1)

StepArgs == {-1, 0, 1, 2, 3}

MaxKArgs == {0, 1, 2, 3}

Peel(tokens, steps, max_k) ==
    /\ pres.st = "ok"
    /\ ~walk.called /\ ~find.called /\ query = NoQuery
    /\ query' = [fn |-> "peel", tokens |-> tokens, steps |-> steps, max_k |-> max_k,
                 res |-> PeelEndTokensInPlace(tokens, [root |-> pres.root],
                                              steps, max_k)]
    /\ UNCHANGED <<root, log, blob, made, kind, pres, walk, find, cache, hist, got, rd, heap>>

PeelNext ==
    \/ \E mem \in ReserveGrants : Parse(mem)
    \/ \E tokens \in PeelLists, steps \in StepArgs, max_k \in MaxKArgs :
          Peel(tokens, steps, max_k)

SpecPeel == BlobInit /\ [][PeelNext]_vars

(***************************************************************************)
(* Runs of find_candidates on the parsed BLOB.                             *)
(***************************************************************************)
CandLists == SeqsUpTo(Tokens, MaxCandToks) \ {<<>>}

Candidates(tokens) ==
    /\ pres.st = "ok"
    /\ ~walk.called /\ ~find.called /\ query = NoQuery
    /\ query' = [fn |-> "find_candidates", tokens |-> tokens,
                 res |-> FindCandidatesScalar([root |-> pres.root], tokens)]
    /\ UNCHANGED <<root, log, blob, made, kind, pres, walk, find, cache, hist, got, rd, heap>>

CandNext ==
    \/ \E mem \in ReserveGrants : Parse(mem)
    \/ \E tokens \in CandLists : Candidates(tokens)

SpecCand == BlobInit /\ [][CandNext]_vars

(***************************************************************************)
(* Runs of several readers on one parsed trie, their loop iterations       *)
(* interleaved in every order.                                             *)
(***************************************************************************)
\* the token lists the readers take
ReadLists == {t \in TokenLists : Len(t) = MaxToks /\ t[1] = <<65>>}

ReadCalls ==
    [fn : {"WalkExact", "PrecomputeSuffixCounts"}, toks : ReadLists]
    \cup [fn : {"GreedyWalkWithSkips"}, toks : ReadLists,
          allow_prefix : BOOLEAN, max_skips : {1}]
    \cup [fn : {"FindAddressExact"}, toks : ReadLists,
          params : {[DefaultMatchParams EXCEPT !.min_matched_tokens = 1]}]
    \cup [fn : {"PeelEndTokensInPlace"}, toks : ReadLists, steps : {2}, max_k : {1}]

\* a BLOB of MaxBlobRows rows with an identifier each
ReadInit ==
    /\ BlobInit
    /\ Len(made.rows) = MaxBlobRows
    /\ \A k \in 1..Len(made.rows) : made.rows[k].uprn # Zero64

\* reader k is called on the trie just parsed
ReadCall(k, call) ==
    /\ pres.st = "ok"
    /\ rd[k] = Idle
    /\ rd' = [rd EXCEPT ![k] = StartReader(call)]
    /\ UNCHANGED <<root, log, blob, made, kind, pres, walk, find, cache, hist, got,
                   query, heap>>

\* reader k runs one iteration
Read(k) ==
    /\ rd[k].pc = "run"
    /\ pres' = [pres EXCEPT !.root = ReaderStep(pres.root, rd[k]).root]
    /\ rd' = [rd EXCEPT ![k] = ReaderStep(pres.root, rd[k]).r]
    /\ UNCHANGED <<root, log, blob, made, kind, walk, find, cache, hist, got, query, heap>>

ReadNext ==
    \/ \E mem \in ReserveGrants : Parse(mem)
    \/ \E k \in Readers, call \in ReadCalls : ReadCall(k, call)
    \/ \E k \in Readers : Read(k)

SpecRead == ReadInit /\ [][ReadNext]_vars

(***************************************************************************)
(* Runs of find_address under every entry depth a two-level trie can tell  *)
(* apart and entry thresholds around the counts a two-row trie can have.   *)
(***************************************************************************)
SeedParams ==
    [skip_min_local_count : {10}, skip_max_in_walk : {0},
     min_matched_tokens : {0, 1},
     entry_min_local_count : {0, 1, 2, 3}, max_trailing_tokens_ignored : {0},
     max_trie_entry_depth : {0, 1, 2}]

SeedNext ==
    \/ \E mem \in ReserveGrants : Parse(mem)
    \/ \E tokens \in TokenLists \ {<<>>}, params \in SeedParams : Find(tokens, params)

SpecSeed == BlobInit /\ [][SeedNext]_vars

(***************************************************************************)
(* Runs of find_address on inputs that carry one more token than a row of  *)
(* the BLOB, under thresholds around the counts a two-row trie can have.   *)
(***************************************************************************)
\* a non-empty token list followed by one more token
NoisyLists == {t \o <<x>> : t \in TokenLists \ {<<>>}, x \in Tokens}

NoiseParams ==
    [skip_min_local_count : {1, 2}, skip_max_in_walk : {0, 2},
     min_matched_tokens : {0, 1, 2},
     entry_min_local_count : {2, 3}, max_trailing_tokens_ignored : {0, 1},
     max_trie_entry_depth : {2}]

NoiseNext ==
    \/ \E mem \in ReserveGrants : Parse(mem)
    \/ \E tokens \in NoisyLists, params \in NoiseParams : Find(tokens, params)

SpecNoise == BlobInit /\ [][NoiseNext]_vars

(***************************************************************************)
(* Runs of the lookup functions on a BLOB whose rows one aggregate state   *)
(* took itself (the first split rows) or got from a second state by        *)
(* StateCombine (the rest) before it was finalized.                        *)
(***************************************************************************)
SplitBuild(rows, split) ==
    IF split = Len(rows) THEN Build(rows)
    ELSE MergeTrie(Build(SubSeq(rows, 1, split)),
                   Build(SubSeq(rows, split + 1, Len(rows))))

DiagInit ==
    \E rows \in SeqsUpTo(Rows, MaxBlobRows) : \E split \in 0..Len(rows) :
        /\ root = [b \in Builders |->
                      IF b = OneBuilder \/ (split < Len(rows) /\ b = OneBuilder + 1)
                      THEN NullPtr ELSE NewTrieNode]
        /\ log = [b \in Builders |-> <<>>]
        /\ blob = FinalizeBytes(SplitBuild(rows, split))
        /\ made = [trie |-> SplitBuild(rows, split),
                   rows |-> [k \in 1..Len(rows) |->
                                [toks |-> rows[k].toks, uprn |-> rows[k].uprn,
                                 via |-> IF k <= split THEN "update" ELSE "combine"]]]
        /\ kind = "valid"
        /\ pres = NoParse
        /\ walk = NoWalk
        /\ find = NoFind
        /\ cache = EmptyCache
        /\ hist = NoHist
        /\ got = NoGot
        /\ query = NoQuery
    /\ rd = NoReaders
    /\ heap = HeapOf(root)

\* the fourth argument of find_address_from_trie_classify, before clamping
SkipArgs == {-1, 0, 1, 2}

\* find_address_from_trie_classify on the trie just parsed
Classify(tokens, allow_prefix, skips) ==
    /\ pres.st = "ok"
    /\ ~walk.called /\ ~find.called /\ query = NoQuery
    /\ query' = [fn |-> "classify", tokens |-> tokens, allow_prefix |-> allow_prefix,
                 skips |-> skips,
                 res |-> ClassifyExec([root |-> pres.root], tokens, allow_prefix, skips)]
    /\ UNCHANGED <<root, log, blob, made, kind, pres, walk, find, cache, hist, got, rd, heap>>

\* parameters of the plain lookups of these runs: entry nodes two levels deep
DiagParams ==
    [skip_min_local_count : ParamValues, skip_max_in_walk : ParamValues,
     min_matched_tokens : ParamValues,
     entry_min_local_count : ParamValues, max_trailing_tokens_ignored : ParamValues,
     max_trie_entry_depth : {2}]

DiagNext ==
    \/ \E mem \in ReserveGrants : Parse(mem)
    \/ \E tokens \in TokenLists, params \in DiagParams : Find(tokens, params)
    \/ \E tokens \in TokenLists, allow_prefix \in BOOLEAN, skips \in SkipArgs :
          Classify(tokens, allow_prefix, skips)

\* plain and diagnostic lookups against the parsed BLOB
SpecDiag == DiagInit /\ [][DiagNext]_vars

(***************************************************************************)
(* What a trie holds, path by path.  A path is the token sequence from the *)
(* root, so the last token of an inserted list comes first.                *)
(***************************************************************************)
RECURSIVE BPathsFrom(_, _)
BPathsFrom(n, path) ==
    {[path |-> path, cnt |-> n.cnt, term |-> n.term, uprn |-> n.uprn]}
        \cup UNION {BPathsFrom(n.next[k].node, Append(path, n.next[k].tok)) :
                        k \in 1..Len(n.next)}

\* the nodes of a builder trie: path, cnt, term, uprn
BPaths(rt) == BPathsFrom(rt, <<>>)

RECURSIVE PPathsFrom(_, _)
PPathsFrom(n, path) ==
    {[path |-> path, cnt |-> n.cnt, term |-> n.term, uprn |-> n.uprn]}
        \cup UNION {PPathsFrom(n.kids[k].node, Append(path, n.kids[k].tok)) :
                        k \in 1..Len(n.kids)}

\* the nodes of a parsed trie: path, cnt, term, uprn
PPaths(rt) == PPathsFrom(rt, <<>>)

RECURSIVE PNodeCount(_)
PNodeCount(n) ==
    LET RECURSIVE Sum(_)
        Sum(k) == IF k = 0 THEN 0 ELSE PNodeCount(n.kids[k].node) + Sum(k - 1)
    IN  1 + Sum(Len(n.kids))

SameTrie(a, b) == BPaths(a) = BPaths(b)

Reverse(q) == [k \in 1..Len(q) |-> q[Len(q) + 1 - k]]

\* t is a suffix of q
IsSuffix(t, q) ==
    /\ Len(t) <= Len(q)
    /\ \A k \in 1..Len(t) : t[k] = q[Len(q) - Len(t) + k]

\* the orderings of a row list
Orderings(rows) ==
    LET n == Len(rows)
        perms == {f \in [1..n -> 1..n] : \A i, j \in 1..n : f[i] = f[j] => i = j}
    IN  {[k \in 1..n |-> rows[f[k]]] : f \in perms}

\* the aggregate states that still own a trie
Live == {b \in Builders : root[b] # NullPtr}

(***************************************************************************)
(* C1.  Round trip: the bytes StateFinalize writes for any trie built by   *)
(* inserts and merges parse successfully, and the parsed trie has a node   *)
(* at a token path exactly when the builder trie has, with the same cnt,   *)
(* term and uprn; no path occurs twice.                                    *)
(***************************************************************************)
RoundTrip ==
    (kind = "valid" /\ pres.st # "none") =>
        /\ pres.st = "ok"
        /\ PPaths(pres.root) = BPaths(made.trie)
        /\ PNodeCount(pres.root) = Cardinality(BPaths(made.trie))

\* a merged three-row trie with a 64-bit identifier went through the codec
RoundTripWitness ==
    /\ kind = "valid"
    /\ pres.st = "ok"
    /\ Len(made.rows) = 3
    /\ \E k \in 1..3 : made.rows[k].via = "combine"
    /\ \E e \in BPaths(made.trie) : e.term = 1 /\ e.uprn = U64(9, 1)
    /\ Len(pres.root.kids) = 2

(***************************************************************************)
(* C3.  Identifier invariant: after any inserts and merges, every node of  *)
(* a builder trie whose terminal count is not 1 has identifier 0.          *)
(***************************************************************************)
IdentifierInvariant ==
    \A b \in Live : \A e \in BPaths(root[b]) : e.term # 1 => e.uprn = Zero64

\* an ambiguous terminal made by a merge, and a unique one with its identifier
IdentifierWitness ==
    \E b \in Live :
        /\ \E k \in 1..Len(log[b]) : log[b][k].via = "combine"
        /\ \E e \in BPaths(root[b]) : e.term = 2 /\ e.uprn = Zero64
        /\ \E e \in BPaths(root[b]) : e.term = 1 /\ e.uprn = U64(9, 1)

(***************************************************************************)
(* C4.  Merge is commutative and associative: for the tries A, B, C of any *)
(* three aggregate states, merge(A,B) and merge(B,A), and                  *)
(* merge(merge(A,B),C) and merge(A,merge(B,C)), agree in cnt, term and     *)
(* uprn at every token path.                                               *)
(***************************************************************************)
MergeAssocComm ==
    kind = "none" =>
        \A a, b, c \in Live :
            /\ SameTrie(MergeTrie(root[a], root[b]), MergeTrie(root[b], root[a]))
            /\ SameTrie(MergeTrie(MergeTrie(root[a], root[b]), root[c]),
                        MergeTrie(root[a], MergeTrie(root[b], root[c])))

\* three non-empty tries; two end a row at one path, so merging them makes an
\* ambiguous terminal, and the third ends a different row
MergeWitness ==
    /\ kind = "none"
    /\ Live = Builders
    /\ \A b \in Builders : Len(log[b]) = 1
    /\ \E a, b, c \in Builders :
          /\ a # b /\ b # c /\ a # c
          /\ log[a][1].toks = log[b][1].toks
          /\ log[a][1].uprn # log[b][1].uprn
          /\ log[c][1].toks # log[a][1].toks

\* the identifier the rows give the node at path: the id of the one row ending
\* there, 0 when none or several do
IdOfRows(rows, path) ==
    LET ends == {k \in 1..Len(rows) : Reverse(rows[k].toks) = path}
    IN  IF Cardinality(ends) = 1 THEN rows[CHOOSE k \in ends : TRUE].uprn ELSE Zero64

\* trie rt is what one builder makes of rows, and its identifiers are those of
\* the rows that end alone at a node
BuiltFrom(rt, rows) ==
    /\ SameTrie(rt, Build(rows))
    /\ FinalizeBytes(rt) = FinalizeBytes(Build(rows))
    /\ \A e \in BPaths(rt) : e.uprn = IdOfRows(rows, e.path)

(***************************************************************************)
(* C5.  Partitioned build equals single build: however the rows were       *)
(* split over aggregate states and merged, a state's trie is the trie one  *)
(* builder makes of all the rows that reached it, and a node's identifier  *)
(* is the inserted id when exactly one of those rows ends at the node and  *)
(* 0 otherwise.                                                            *)
(***************************************************************************)
PartitionedBuild ==
    /\ kind = "none" => \A b \in Live : BuiltFrom(root[b], log[b])
    /\ kind = "valid" => BuiltFrom(made.trie, made.rows)

\* a state holds its own row and the rows of two merged states, one of them
\* ending at the same node as its own
PartitionedWitness ==
    /\ kind = "none"
    /\ \E b \in Live :
          /\ Len(log[b]) = 3
          /\ log[b][1].via = "update"
          /\ log[b][2].via = "combine" /\ log[b][3].via = "combine"
          /\ log[b][1].toks = log[b][2].toks
          /\ log[b][1].toks # log[b][3].toks
          /\ log[b][3].uprn = U64(9, 1)

(***************************************************************************)
(* C6.  Insertion order invariance: the rows a builder received, inserted  *)
(* in any other order, give a trie with the same paths, counts, terminal   *)
(* counts and identifiers, and the same serialized bytes.                  *)
(***************************************************************************)
InsertionOrderInvariance ==
    kind = "none" =>
        \A b \in Live :
            (\A k \in 1..Len(log[b]) : log[b][k].via = "update") =>
                \A other \in Orderings(log[b]) :
                    /\ SameTrie(Build(other), root[b])
                    /\ FinalizeBytes(Build(other)) = FinalizeBytes(root[b])

\* three rows, two with one token list and different ids, the third making a
\* second child that sorts before the first
InsertionOrderWitness ==
    /\ kind = "none"
    /\ \E b \in Live :
          /\ Len(log[b]) = 3
          /\ \A k \in 1..3 : log[b][k].via = "update"
          /\ log[b][1].toks = <<<<65, 66>>>>
          /\ log[b][2].toks = <<<<65, 66>>>> /\ log[b][2].uprn # log[b][1].uprn
          /\ log[b][3].toks = <<<<65>>>>
          /\ root[b].next[1].tok = <<65, 66>>

\* the rows of the finalized trie that end with t / are equal to t
RowsEndingWith(t) == {k \in 1..Len(made.rows) : IsSuffix(t, made.rows[k].toks)}

RowsEqualTo(t) == {k \in 1..Len(made.rows) : made.rows[k].toks = t}

(***************************************************************************)
(* C2.  Exact match: when the queried tokens are an inserted row whose     *)
(* terminal node has terminal count 1 and the row is at least              *)
(* min_matched_tokens long, FindAddressExact succeeds and returns the id   *)
(* inserted with that row, whatever the other parameters are.              *)
(***************************************************************************)
ExactMatch ==
    find.called =>
        \A k \in RowsEqualTo(find.tokens) :
            ( /\ \E e \in BPaths(made.trie) :
                    e.path = Reverse(find.tokens) /\ e.term = 1
              /\ Len(find.tokens) >= find.params.min_matched_tokens )
            => /\ find.res.ok
               /\ find.res.uprn = made.rows[k].uprn

\* the queried row ends at a node a longer row passes through, the lookup ran
\* with parameters that are not the defaults, and the 64-bit id came back
ExactMatchWitness ==
    /\ find.called
    /\ find.tokens = <<<<65>>>>
    /\ Len(made.rows) = 2
    /\ made.rows[1].toks = <<<<65, 66>>, <<65>>>>
    /\ made.rows[2] = [toks |-> <<<<65>>>>, uprn |-> U64(9, 1), via |-> "update"]
    /\ find.params.min_matched_tokens = 1
    /\ find.params.skip_max_in_walk = 0
    /\ find.params.max_trie_entry_depth = 2
    /\ find.params.entry_min_local_count = 0
    /\ find.res.ok
    /\ find.res.uprn = U64(9, 1)

(***************************************************************************)
(* C7.  Strict consumption: ParseQCK2 fails on every buffer made of a      *)
(* complete valid encoding followed by one or more extra bytes.            *)
(***************************************************************************)
StrictConsumption ==
    (kind = "extra" /\ pres.st # "none") => pres.st = "fail"

\* two extra bytes after the encoding of a two-row trie: the root node was
\* decoded whole, the cursor stopped two bytes short of the end
StrictConsumptionWitness ==
    /\ kind = "extra"
    /\ Len(made.rows) = 2
    /\ Len(blob) = Len(FinalizeBytes(made.trie)) + 2
    /\ SubSeq(blob, 1, Len(blob) - 2) = FinalizeBytes(made.trie)
    /\ pres.st = "fail"
    /\ pres.c.p = Len(blob) - 2

(***************************************************************************)
(* C8.  Bounds-checked decoding: whatever the buffer, when ParseQCK2 ends  *)
(* the cursor is not past the buffer end and no byte at or beyond the end  *)
(* was read; every proper prefix of a valid BLOB fails to decode.          *)
(***************************************************************************)
BoundsChecked ==
    pres.st # "none" =>
        /\ pres.c.p <= Len(blob)
        /\ pres.c.rd <= Len(blob)
        /\ kind = "prefix" => pres.st = "fail"

\* a BLOB cut inside a child node: the read that would cross the end failed
\* with bytes still ahead of the cursor
BoundsCheckedWitness ==
    /\ kind = "prefix"
    /\ pres.st = "fail"
    /\ Len(blob) > 29
    /\ pres.c.p > 25
    /\ pres.c.p < Len(blob)
    /\ pres.c.p + 4 > Len(blob)

(***************************************************************************)
(* C9.  Decoding never aborts: for every byte buffer ParseQCK2 returns a   *)
(* parsed trie or nullptr; no exception leaves the call.                   *)
(***************************************************************************)
DecodingNeverAborts == pres.st # "throw"

(***************************************************************************)
(* C10.  Count semantics: on the trie of the rows M, WalkExact(t) returns  *)
(* a node exactly when t is empty or t is a suffix of at least one row of  *)
(* M; the node's cnt is the number of rows ending with t and its term the  *)
(* number of rows equal to t; the root's cnt is the number of rows.        *)
(***************************************************************************)
CountSemantics ==
    walk.called =>
        /\ walk.node # NullPtr <=> (walk.toks = <<>> \/ RowsEndingWith(walk.toks) # {})
        /\ walk.node # NullPtr =>
              /\ walk.node.cnt = Cardinality(RowsEndingWith(walk.toks))
              /\ walk.node.term = Cardinality(RowsEqualTo(walk.toks))
        /\ pres.root.cnt = Len(made.rows)

\* a one-token walk ends at a node two rows pass through and one row ends at
CountSemanticsWitness ==
    /\ walk.called
    /\ walk.toks = <<<<65>>>>
    /\ Len(made.rows) = 2
    /\ walk.node # NullPtr
    /\ walk.node.cnt = 2
    /\ walk.node.term = 1
    /\ pres.root.cnt = 2

\* C10 as stated: WalkExact(t) returns a node exactly when t is a suffix of at
\* least one row of M, with the counts above
CountSemanticsAsStated ==
    walk.called =>
        /\ walk.node # NullPtr <=> RowsEndingWith(walk.toks) # {}
        /\ walk.node # NullPtr =>
              /\ walk.node.cnt = Cardinality(RowsEndingWith(walk.toks))
              /\ walk.node.term = Cardinality(RowsEqualTo(walk.toks))
        /\ pres.root.cnt = Len(made.rows)

\* the step is a Put of a key the cache does not hold, into a full cache
OverflowingPut ==
    /\ hist'.clock = hist.clock + 1
    /\ got'.op = "Put"
    /\ got'.key \notin Keys(cache)
    /\ Size(cache) = MAX_CACHE_SIZE

(***************************************************************************)
(* C11.  LRU eviction order: a key leaves the cache only in a Put that     *)
(* overflows the capacity, and it is the key whose most recent Get hit or  *)
(* Put is the oldest of all keys held.  So once capacity+1 distinct keys   *)
(* were put with no other call, the first of them is gone, and a Get hit   *)
(* on it before the overflowing Put keeps it and the next-oldest goes.     *)
(***************************************************************************)
LRUEvictionOrder ==
    /\ []((hist.clock = MAX_CACHE_SIZE + 1 /\ Touches = 0) =>
             \A k \in KeysPut : hist.stamp[k] = 1 => k \notin Keys(cache))
    /\ [][\A k \in Keys(cache) \ Keys(cache') :
             /\ OverflowingPut
             /\ \A j \in Keys(cache) \ {k} : hist.stamp[k] < hist.stamp[j]]_vars

\* key 1 was put first and key 2 second; key 1 was used again before the
\* Put that overflowed, which evicted key 2
LRUEvictionWitness ==
    /\ got.op = "Put"
    /\ Cardinality(KeysPut) = MAX_CACHE_SIZE + 1
    /\ Touches = 1
    /\ KeyOf(1) \in Keys(cache)
    /\ KeyOf(2) \notin Keys(cache)
    /\ hist.stamp[KeyOf(2)] = 2
    /\ hist.stamp[KeyOf(1)] > 2

(***************************************************************************)
(* C12.  Cache capacity bound: the cache never holds more than             *)
(* MAX_CACHE_SIZE entries, the list and the map hold the same keys, the    *)
(* key of a Put is in the cache afterwards, and a Put of a new key into a  *)
(* full cache removes exactly one entry.                                   *)
(***************************************************************************)
CapacityBound ==
    /\ [](/\ Size(cache) <= MAX_CACHE_SIZE
          /\ Len(cache.lru_list) = Size(cache)
          /\ {cache.lru_list[i].key : i \in 1..Len(cache.lru_list)} = Keys(cache)
          /\ got.op = "Put" => got.key \in Keys(cache))
    /\ [][OverflowingPut =>
             /\ Cardinality(Keys(cache) \ Keys(cache')) = 1
             /\ Size(cache') = MAX_CACHE_SIZE]_vars

\* two Puts have overflowed a full cache, which is still full
CapacityWitness ==
    /\ got.op = "Put"
    /\ Cardinality(KeysPut) = MAX_CACHE_SIZE + 2
    /\ Size(cache) = MAX_CACHE_SIZE
    /\ got.key \in Keys(cache)

\* what ParseQCK2(data) returns: the parsed trie, or NullPtr for nullptr
ParsedValue(data, mem) ==
    IF ParseQCK2(data, mem).st = "ok"
    THEN [root |-> ParseQCK2(data, mem).root] ELSE NullPtr

(***************************************************************************)
(* C13.  The cache is a pure memoization of parsing: whatever calls were   *)
(* made on the cache before, GetOrParseTrie(cache, blob) returns what      *)
(* ParseQCK2(blob) returns for that blob.                                  *)
(***************************************************************************)
MemoizationOfParsing ==
    (got.op = "GetOrParseTrie" /\ got.st = "ok") =>
        \A mem \in ReserveGrants : got.value = ParsedValue(got.data, mem)

\* the finalized trie holds one token list, put in twice with different ids
TwiceInserted ==
    /\ Len(made.rows) = 2
    /\ made.rows[1].toks = made.rows[2].toks
    /\ made.rows[1].uprn # made.rows[2].uprn

(***************************************************************************)
(* C14.  Ambiguity: when one token list was inserted with two different    *)
(* ids, by one builder or by two builders merged afterwards, its node has  *)
(* term 2 and uprn 0; on the trie of just these two rows FindAddressExact  *)
(* of the list fails for every parameter setting and the classify entry    *)
(* point reports AMBIGUOUS with no uprn.                                   *)
(***************************************************************************)
Ambiguity ==
    TwiceInserted =>
        /\ \A e \in BPaths(made.trie) :
              e.path = Reverse(made.rows[1].toks) => e.term = 2 /\ e.uprn = Zero64
        /\ \E e \in BPaths(made.trie) : e.path = Reverse(made.rows[1].toks)
        /\ (find.called /\ find.tokens = made.rows[1].toks) => ~find.res.ok
        /\ (query.fn = "classify" /\ query.tokens = made.rows[1].toks) =>
              /\ query.res.status = "AMBIGUOUS"
              /\ ~query.res.has_uprn

\* two builders each took the two-token list with its own id and were merged;
\* the diagnostic call on the list consumed both tokens
AmbiguityWitness ==
    /\ TwiceInserted
    /\ Len(made.rows[1].toks) = 2
    /\ made.rows[1].via = "update" /\ made.rows[2].via = "combine"
    /\ query.fn = "classify"
    /\ query.tokens = made.rows[1].toks
    /\ query.res.status = "AMBIGUOUS"
    /\ query.res.consumed_all_tokens
    /\ query.res.term = 2


(***************************************************************************)
(* C15  Trailing-noise tolerance.                                          *)
(***************************************************************************)
RECURSIVE MaxCntBelow(_)
\* the largest count of a node below n, 0 if n is a leaf
MaxCntBelow(n) ==
    LET Below(k) == Max(n.kids[k].node.cnt, MaxCntBelow(n.kids[k].node))
    IN  IF n.kids = <<>> THEN 0
        ELSE LET k == CHOOSE x \in 1..Len(n.kids) :
                          \A y \in 1..Len(n.kids) : Below(x) >= Below(y)
             IN  Below(k)

\* the lookup just made was of row k of the BLOB, a uniquely terminating
\* sequence of at least min_matched_tokens tokens, followed by one token
\* that is not a child of the root, in a trie whose counts below the root
\* neither exceed skip_min_local_count nor reach entry_min_local_count
NoisyLookupOf(k) ==
    /\ find.called /\ pres.st = "ok"
    /\ Len(find.tokens) = Len(made.rows[k].toks) + 1
    /\ SubSeq(find.tokens, 1, Len(find.tokens) - 1) = made.rows[k].toks
    /\ LookupFindChild(pres.root, find.tokens[Len(find.tokens)]) = NullPtr
    /\ WalkExact([root |-> pres.root], made.rows[k].toks).term = 1
    /\ Len(made.rows[k].toks) >= find.params.min_matched_tokens
    /\ MaxCntBelow(pres.root) <= find.params.skip_min_local_count
    /\ MaxCntBelow(pres.root) < find.params.entry_min_local_count

StartOffsets ==
    0..Min(find.params.max_trailing_tokens_ignored, Len(find.tokens) - 1)

\* the token lists as long as t that differ from t at most at positions lo..hi
SameOutside(t, lo, hi) ==
    {u \in [1..Len(t) -> Tokens] :
        \A j \in 1..Len(t) : (j < lo \/ j > hi) => u[j] = t[j]}

\* the result of the lookup is that of one of its walk attempts
FromSomeAttempt ==
    find.res.ok =>
        \E s \in StartOffsets :
            \E e \in 1..Len(EntryNodes(pres.root, find.params)) :
                find.res = WalkAttempt(find.tokens, find.params, s,
                                       EntryNodes(pres.root, find.params)[e])

\* C16 as stated: the attempt at start offset s skips the s leading tokens
\* of the input (whatever they are, its outcome is the same) and walks the
\* rest rightmost first.
LeadingTokensSkipped ==
    (find.called /\ pres.st = "ok" /\ find.tokens # <<>>) =>
        /\ FromSomeAttempt
        /\ \A s \in StartOffsets :
              \A e \in 1..Len(EntryNodes(pres.root, find.params)) :
                 \A u \in SameOutside(find.tokens, 1, s) :
                    WalkAttempt(u, find.params, s,
                                EntryNodes(pres.root, find.params)[e])
                    = WalkAttempt(find.tokens, find.params, s,
                                  EntryNodes(pres.root, find.params)[e])

\* C16, amended: the attempt at start offset s skips the s trailing
\* (rightmost) tokens of the input: whatever they are, its outcome is the
\* same; it walks the remaining N - s tokens rightmost first, and without
\* in-walk skips it is the attempt at offset 0 on the input without its
\* last s tokens.
TrailingTokensSkipped ==
    (find.called /\ pres.st = "ok" /\ find.tokens # <<>>) =>
        /\ FromSomeAttempt
        /\ \A s \in StartOffsets :
              \A e \in 1..Len(EntryNodes(pres.root, find.params)) :
                 /\ \A u \in SameOutside(find.tokens, Len(find.tokens) - s + 1,
                                          Len(find.tokens)) :
                       WalkAttempt(u, find.params, s,
                                   EntryNodes(pres.root, find.params)[e])
                       = WalkAttempt(find.tokens, find.params, s,
                                     EntryNodes(pres.root, find.params)[e])
                 /\ find.params.skip_max_in_walk = 0 =>
                       WalkAttempt(find.tokens, find.params, s,
                                   EntryNodes(pres.root, find.params)[e])
                       = WalkAttempt(SubSeq(find.tokens, 1, Len(find.tokens) - s),
                                     find.params, 0,
                                     EntryNodes(pres.root, find.params)[e])

\* a lookup of three tokens that fails at start offset 0 from every entry
\* node and succeeds at start offset 1 having matched two tokens
TrailingTokensWitness ==
    /\ find.called /\ pres.st = "ok" /\ Len(find.tokens) = 3
    /\ find.params.max_trailing_tokens_ignored >= 1
    /\ find.params.min_matched_tokens = 2
    /\ find.res.ok
    /\ \A e \in 1..Len(EntryNodes(pres.root, find.params)) :
          ~WalkAttempt(find.tokens, find.params, 0,
                       EntryNodes(pres.root, find.params)[e]).ok

(***************************************************************************)
(* C17  Peeler shrink.                                                     *)
(***************************************************************************)
IsPrefix(p, q) == Len(p) <= Len(q) /\ p = SubSeq(q, 1, Len(p))

\* C17: with steps <= 0 the peeler returns its input, and its result for
\* steps = b is a prefix of its result for every steps = a <= b on the
\* same tokens, trie and max_k.
PeelerShrink ==
    query.fn = "peel" =>
        /\ query.steps <= 0 => query.res = query.tokens
        /\ \A a \in StepArgs :
              a <= query.steps =>
                 IsPrefix(query.res,
                          PeelEndTokensInPlace(query.tokens, [root |-> pres.root],
                                               a, query.max_k))

\* a peel of two steps that dropped tokens in both
PeelerShrinkWitness ==
    /\ query.fn = "peel" /\ query.steps = 2 /\ query.max_k = 1
    /\ Len(query.tokens) = 3 /\ Len(query.res) = 1
    /\ Len(PeelEndTokensInPlace(query.tokens, [root |-> pres.root], 1,
                                 query.max_k)) = 2

(***************************************************************************)
(* C18  Readers do not modify the trie.                                    *)
(***************************************************************************)
\* the result reader k returned is the one its function gives on the trie
AgreesWithFunction(k) ==
    LET c == rd[k].call
        pt == [root |-> pres.root]
    IN  /\ c.fn = "WalkExact" =>
              IF rd[k].res = NullPtr THEN WalkExact(pt, c.toks) = NullPtr
              ELSE Deref(pres.root, rd[k].res) = WalkExact(pt, c.toks)
        /\ c.fn = "FindAddressExact" =>
              rd[k].res = FindAddressExact(pt, c.toks, c.params)
        /\ c.fn = "PeelEndTokensInPlace" =>
              rd[k].res = PeelEndTokensInPlace(c.toks, pt, c.steps, c.max_k)

\* C18: no iteration of FindAddressExact, WalkExact, PrecomputeSuffixCounts,
\* GreedyWalkWithSkips or PeelEndTokensInPlace changes the parsed trie, and
\* whatever the interleaving of the readers, each returns what its call
\* returns when run alone from start to end on the trie.
ReadersLeaveTrie ==
    /\ [][(\E k \in Readers : rd[k].pc = "run" /\ rd'[k].pc \in {"run", "done"})
              => pres' = pres]_vars
    /\ [](\A k \in Readers :
             rd[k].pc = "done" =>
                /\ rd[k] = RunReader(pres.root, StartReader(rd[k].call)).r
                /\ RunReader(pres.root, StartReader(rd[k].call)).root = pres.root
                /\ AgreesWithFunction(k))

\* reader 1 is past the first token of a GreedyWalkWithSkips while reader 2
\* has returned the identifier of a FindAddressExact that started later
\* or earlier on the same trie
ReadersWitness ==
    /\ rd[1].pc = "run" /\ rd[1].call.fn = "GreedyWalkWithSkips"
    /\ rd[1].node # RootP
    /\ rd[2].pc = "done" /\ rd[2].call.fn = "FindAddressExact"
    /\ rd[2].res.ok

(***************************************************************************)
(* C19  The candidate enumerator and the fuzzy matcher.                    *)
(***************************************************************************)
\* C19: find_candidates reports "exact" with identifier u exactly when
\* FindAddressExact with the default parameters succeeds with u, and then
\* its candidate list is <<u>>.
SameWalkAsMatcher ==
    query.fn = "find_candidates" =>
        LET f == FindAddressExact([root |-> pres.root], query.tokens,
                                  DefaultMatchParams)
        IN  /\ (query.res.status = "exact") <=> f.ok
            /\ f.ok => query.res.uprns = <<f.uprn>>

(***************************************************************************)
(* C20  Diagnostic classification.                                         *)
(***************************************************************************)
\* C20 as stated: NO_PATH when no token was matched, INSUFFICIENT when some
\* were and the walk ended on a node with term = 0, AMBIGUOUS when it ended
\* on a node of count > 1 that did not resolve uniquely (a node with
\* term = 0 and count > 1 may be given either of the two), EXACT otherwise;
\* the identifier is present only with EXACT.
ClassificationAsStated ==
    query.fn = "classify" =>
        LET r == query.res
            unique == r.consumed_all_tokens /\ r.term = 1 /\ r.has_uprn
        IN  /\ r.has_uprn => r.status = "EXACT"
            /\ r.status \in
                  IF r.matched_len = 0 THEN {"NO_PATH"}
                  ELSE IF r.term = 0 /\ r.node_cnt <= 1 THEN {"INSUFFICIENT"}
                  ELSE IF r.term = 0 THEN {"INSUFFICIENT", "AMBIGUOUS"}
                  ELSE IF r.node_cnt > 1 /\ ~unique THEN {"AMBIGUOUS"}
                  ELSE {"EXACT"}

\* C20, amended: all tokens are consumed exactly when the whole list is a
\* path from the root.  Then the status is EXACT with the identifier of
\* the node reached if that node has term = 1 and a nonzero identifier,
\* INSUFFICIENT if it has term = 0, AMBIGUOUS otherwise.  When not all
\* tokens are consumed the status is NO_PATH if no token was matched,
\* AMBIGUOUS if the (best) node reached has count > 1, and NO_PATH
\* otherwise.  The identifier is present exactly when the status is EXACT.
Classification ==
    query.fn = "classify" =>
        LET r == query.res
            w == WalkExact([root |-> pres.root], query.tokens)
        IN  /\ r.consumed_all_tokens <=> (query.tokens # <<>> /\ w # NullPtr)
            /\ r.has_uprn <=> r.status = "EXACT"
            /\ r.status = "EXACT" => r.uprn = w.uprn
            /\ r.status =
                  IF r.consumed_all_tokens
                  THEN (IF w.term = 1 /\ w.uprn # Zero64 THEN "EXACT"
                        ELSE IF w.term = 0 THEN "INSUFFICIENT"
                        ELSE "AMBIGUOUS")
                  ELSE IF r.matched_len = 0 THEN "NO_PATH"
                  ELSE IF r.node_cnt > 1 THEN "AMBIGUOUS"
                  ELSE "NO_PATH"

\* a row whose walk matched a token, stopped before the list was consumed
\* on a non-terminal node of count 1, and was classified NO_PATH
ClassificationWitness ==
    /\ query.fn = "classify"
    /\ query.res.matched_len = 1 /\ ~query.res.consumed_all_tokens
    /\ query.res.term = 0 /\ query.res.node_cnt = 1
    /\ query.res.status = "NO_PATH"

(***************************************************************************)
(* C21  Skip precondition and budget.                                      *)
(***************************************************************************)
\* the walk attempts of the lookup just made: start offset and entry index
Attempts ==
    {<<s, e>> : s \in StartOffsets, e \in 1..Len(EntryNodes(pres.root, find.params))}

\* how attempt a of the lookup just made ran
TraceOf(a) ==
    WalkTrace(find.tokens, find.params, a[1], EntryNodes(pres.root, find.params)[a[2]])

RECURSIVE SumDelta(_)
\* the tokens skipped by a sequence of hops
SumDelta(hops) ==
    IF hops = <<>> THEN 0 ELSE hops[1].delta + SumDelta(Tail(hops))

RECURSIVE DirectPath(_, _, _, _)
\* the node k direct child steps from node, reading tokens leftwards from
\* position N - i; NullPtr if a step has no child
DirectPath(node, tokens, i, k) ==
    IF k = 0 \/ node = NullPtr THEN node
    ELSE DirectPath(FindChild(node, tokens[Len(tokens) - i]), tokens, i + 1, k - 1)

\* C21: in every walk attempt of a lookup each lookahead skip lands on a
\* child whose count is strictly greater than skip_min_local_count and the
\* tokens skipped in the attempt never exceed skip_max_in_walk; with
\* skip_max_in_walk = 0 no skip is taken, every token consumed is a direct
\* child step, and an attempt that did not accept stopped at the first token
\* without a child (or ran out of tokens).
SkipBudget ==
    (find.called /\ pres.st = "ok" /\ find.tokens # <<>>) =>
        \A a \in Attempts :
            \A tr \in {TraceOf(a)} :
                /\ \A k \in 1..Len(tr.hops) :
                       /\ tr.hops[k].cnt > find.params.skip_min_local_count
                       /\ tr.hops[k].delta >= 1
                /\ SumDelta(tr.hops) <= find.params.skip_max_in_walk
                /\ find.params.skip_max_in_walk = 0 =>
                       /\ tr.hops = <<>>
                       /\ tr.node = DirectPath(EntryNodes(pres.root, find.params)[a[2]],
                                               find.tokens, a[1], tr.consumed - a[1])
                       /\ ~tr.ok =>
                              \/ tr.consumed = Len(find.tokens)
                              \/ FindChild(tr.node,
                                     find.tokens[Len(find.tokens) - tr.consumed]) = NullPtr

\* a lookup with an attempt that spent its whole budget of two skipped
\* tokens landing on a child whose count is just above the threshold
SkipBudgetWitness ==
    /\ find.called /\ pres.st = "ok" /\ find.tokens # <<>>
    /\ find.params.skip_max_in_walk = 2
    /\ \E a \in Attempts :
          /\ TraceOf(a).hops # <<>>
          /\ SumDelta(TraceOf(a).hops) = 2
          /\ TraceOf(a).hops[1].cnt = find.params.skip_min_local_count + 1

(***************************************************************************)
(* C22  Minimum match length.                                              *)
(***************************************************************************)
\* C22: a lookup that succeeds does so in one of its walk attempts, no
\* attempt accepts before min_matched_tokens tokens have been consumed
\* (matched or skipped) since its start offset, and a lookup with
\* min_matched_tokens larger than the number of input tokens fails.
MinimumMatchLength ==
    (find.called /\ pres.st = "ok" /\ find.tokens # <<>>) =>
        /\ find.res.ok => \E a \in Attempts : TraceOf(a).ok
        /\ \A a \in Attempts :
              \A tr \in {TraceOf(a)} :
                  tr.ok => /\ tr.consumed - a[1] >= find.params.min_matched_tokens
                           /\ tr.consumed <= Len(find.tokens)
        /\ find.params.min_matched_tokens > Len(find.tokens) => ~find.res.ok

\* a lookup that succeeded having consumed exactly min_matched_tokens = 2
\* tokens, one of them skipped, on a trie whose root alone would be accepted
\* were there no minimum
MinimumMatchWitness ==
    /\ find.called /\ pres.st = "ok" /\ find.tokens # <<>>
    /\ find.params.min_matched_tokens = 2
    /\ find.res.ok
    /\ pres.root.cnt = 1
    /\ \E a \in Attempts :
          /\ TraceOf(a).ok
          /\ TraceOf(a).consumed - a[1] = 2
          /\ TraceOf(a).hops # <<>>

(***************************************************************************)
(* C23  Deterministic first acceptance.                                    *)
(***************************************************************************)
\* attempt a comes no later than attempt b: start offsets ascending, then
\* entry nodes in their order
NoLater(a, b) == a[1] < b[1] \/ (a[1] = b[1] /\ a[2] <= b[2])

\* C23: the root is the first entry node; a lookup fails when none of its
\* attempts accepts and otherwise returns the identifier of the earliest
\* accepting attempt (start offsets ascending, then entry nodes in order);
\* an accepting attempt returns what TryAcceptCurrentNode gives at the node
\* where it ended and, when it took no skip, no earlier node of its walk
\* was acceptable; and the lookup gives the same result on the trie parsed
\* from the BLOB of the same rows inserted in any other order.
FirstAcceptance ==
    (find.called /\ pres.st = "ok" /\ kind = "valid" /\ find.tokens # <<>>) =>
        /\ EntryNodes(pres.root, find.params)[1] = pres.root
        /\ \A acc \in {{a \in Attempts : TraceOf(a).ok}} :
              IF acc = {} THEN ~find.res.ok
              ELSE \E a \in acc :
                      /\ \A b \in acc : NoLater(a, b)
                      /\ find.res.ok
                      /\ find.res.uprn = TraceOf(a).uprn
        /\ \A a \in Attempts :
              \A tr \in {TraceOf(a)} :
                  tr.ok =>
                      /\ TryAcceptCurrentNode(find.params, tr.node, a[1], tr.consumed,
                                              Len(find.tokens))
                         = [ok |-> TRUE, uprn |-> tr.uprn]
                      /\ tr.hops = <<>> =>
                            \A k \in 0..(tr.consumed - a[1] - 1) :
                                ~TryAcceptCurrentNode(
                                     find.params,
                                     DirectPath(EntryNodes(pres.root, find.params)[a[2]],
                                                find.tokens, a[1], k),
                                     a[1], a[1] + k, Len(find.tokens)).ok
        /\ \A other \in Orderings(made.rows) :
              \A mem \in ReserveGrants :
                  \A p \in {ParseQCK2(FinalizeBytes(Build(other)), mem)} :
                      /\ p.st = "ok"
                      /\ FindAddressExact([root |-> p.root], find.tokens, find.params)
                         = find.res

\* a lookup on a two-row trie in which a later attempt accepts a different
\* identifier than the one returned
FirstAcceptanceWitness ==
    /\ find.called /\ pres.st = "ok" /\ kind = "valid" /\ find.tokens # <<>>
    /\ Len(made.rows) = 2
    /\ find.res.ok
    /\ \E a, b \in Attempts :
          /\ a # b /\ NoLater(a, b)
          /\ TraceOf(a).ok /\ TraceOf(b).ok
          /\ TraceOf(a).uprn = find.res.uprn
          /\ TraceOf(b).uprn # find.res.uprn

(***************************************************************************)
(* C24  Entry-node seeding.                                                *)
(***************************************************************************)
RECURSIVE PathsTo(_, _)
\* the paths of at most d edges from node n, as sequences of kid positions
PathsTo(n, d) ==
    IF d = 0 THEN {<<>>}
    ELSE {<<>>} \cup UNION {{<<k>> \o q : q \in PathsTo(n.kids[k].node, d - 1)} :
                               k \in 1..Len(n.kids)}

\* the paths to the nodes 1..max_trie_entry_depth edges below the root of
\* the trie just looked up whose count is at least entry_min_local_count
SeedPaths ==
    {q \in PathsTo(pres.root, find.params.max_trie_entry_depth) \ {<<>>} :
        NodeAt(pres.root, q, 1).cnt >= find.params.entry_min_local_count}

RECURSIVE PNodesOf(_)
\* the nodes of the parsed trie rooted at n
PNodesOf(n) ==
    {n} \cup UNION {PNodesOf(n.kids[k].node) : k \in 1..Len(n.kids)}

\* the children of n are in strictly increasing token order
KidsSorted(n) ==
    \A k \in 1..(Len(n.kids) - 1) : StrLess(n.kids[k].tok, n.kids[k + 1].tok)

\* FindChild on n returns the child with token tok when n has one and
\* nothing otherwise
FindsItsKids(n, tok) ==
    IF \E k \in 1..Len(n.kids) : n.kids[k].tok = tok
    THEN \E k \in 1..Len(n.kids) :
             n.kids[k].tok = tok /\ FindChild(n, tok) = n.kids[k].node
    ELSE FindChild(n, tok) = NullPtr

\* C25: in every trie a successful ParseQCK2 returns each node's children
\* are in strictly increasing token order, and FindChild returns a child
\* for a token exactly when the node has a child with that token.
SortedChildren ==
    pres.st = "ok" =>
        \A n \in PNodesOf(pres.root) :
            /\ KidsSorted(n)
            /\ \A tok \in Tokens \cup {n.kids[k].tok : k \in 1..Len(n.kids)} :
                   FindsItsKids(n, tok)

(***************************************************************************)
(* C26  Results come only from unique terminals.                           *)
(***************************************************************************)
\* identifier u is that of a node with terminal count 1 that is node n
\* itself or, n having count 1, the only terminal at or beneath n
FromUniqueTerminal(n, u) ==
    \E m \in PNodesOf(n) :
        /\ m.term = 1
        /\ m.uprn = u
        /\ \/ m = n
           \/ n.cnt = 1 /\ {x \in PNodesOf(n) : x.term # 0} = {m}

PeeledAfter(j) ==
    PeelEndTokensInPlace(query.tokens, [root |-> pres.root], j, query.max_k)

\* C27 as stated: the result of a peel is a prefix of its input and keeps
\* a token when the input has one; iteration j + 1 removes nothing, and
\* then so do all later ones, or it removes the trailing k tokens for the
\* largest k in 1..max_k (below the length) at which the anchor alone is
\* counted more often than with the tail; so after steps >= 0 iterations at
\* least n - steps * max_k tokens are left.
PeelerTrimsRightAsStated ==
    query.fn = "peel" =>
        /\ IsPrefix(query.res, query.tokens)
        /\ query.tokens # <<>> => Len(query.res) >= 1
        /\ \A j \in 0..(query.steps - 1) :
              \A t \in {PeeledAfter(j)} :
                  \A d \in {Len(t) - Len(PeeledAfter(j + 1))} :
                      /\ PeeledAfter(j + 1) = SubSeq(t, 1, Len(t) - d)
                      /\ d = 0 \/ (1 <= d /\ d <= query.max_k)
                      /\ d = 0 => PeeledAfter(query.steps) = t
                      /\ \A k \in 1..Min(query.max_k, Len(t) - 1) :
                            PeelGain(t, [root |-> pres.root], k) => d >= k
                      /\ d > 0 => PeelGain(t, [root |-> pres.root], d)
        /\ query.steps >= 0 =>
              Len(query.res) >= Len(query.tokens) - query.steps * query.max_k

\* C27, amended: the same with max_k below 1 taken as 1: the result of a
\* peel is a prefix of its input and keeps a token when the input has one;
\* iteration j + 1 removes nothing, and then so do all later ones, or it
\* removes the trailing k tokens for the largest k in 1..max(max_k, 1)
\* (below the length) at which the anchor alone is counted more often than
\* with the tail; so after steps >= 0 iterations at least
\* n - steps * max(max_k, 1) tokens are left.
PeelerTrimsRight ==
    query.fn = "peel" =>
        /\ IsPrefix(query.res, query.tokens)
        /\ query.tokens # <<>> => Len(query.res) >= 1
        /\ \A j \in 0..(query.steps - 1) :
              \A t \in {PeeledAfter(j)} :
                  \A d \in {Len(t) - Len(PeeledAfter(j + 1))} :
                      /\ PeeledAfter(j + 1) = SubSeq(t, 1, Len(t) - d)
                      /\ d = 0 \/ (1 <= d /\ d <= Max(query.max_k, 1))
                      /\ d = 0 => PeeledAfter(query.steps) = t
                      /\ \A k \in 1..Min(Max(query.max_k, 1), Len(t) - 1) :
                            PeelGain(t, [root |-> pres.root], k) => d >= k
                      /\ d > 0 => PeelGain(t, [root |-> pres.root], d)
        /\ query.steps >= 0 =>
              Len(query.res) >= Len(query.tokens) - query.steps * Max(query.max_k, 1)

\* a peel of one step with max_k = 2 that dropped two of three tokens where
\* dropping one would have been a gain as well
PeelerTrimsWitness ==
    /\ query.fn = "peel" /\ query.steps = 1 /\ query.max_k = 2
    /\ Len(query.tokens) = 3 /\ Len(query.res) = 1
    /\ PeelGain(query.tokens, [root |-> pres.root], 1)

(***************************************************************************)
(* C28  Builder lifecycle.                                                 *)
(***************************************************************************)
\* every root was deleted at most once, a state holds no root exactly when
\* its root was deleted, and a state whose destructor ran has had its root
\* deleted exactly once
RootsFreedOnce ==
    \A b \in Builders :
        /\ heap[b].deletes <= 1
        /\ root[b] = NullPtr <=> heap[b].deletes = 1
        /\ heap[b].destructed => heap[b].deletes = 1

\* what each call does to the roots
LifecycleStep ==
    /\ \A b \in Builders :
          root[b] = NullPtr =>
              root'[b] = NullPtr /\ heap'[b].deletes = heap[b].deletes
    /\ \A src, dst \in Builders :
          (StateCombine(src, dst) /\ root[src] # NullPtr /\ root[dst] # NullPtr) =>
              /\ BuiltFrom(root'[dst], log[dst] \o log[src])
              /\ root'[src] = NullPtr
              /\ heap'[src].deletes = heap[src].deletes + 1
              /\ heap'[dst] = heap[dst]
    /\ \A b \in Builders :
          StateFinalize(b) =>
              IF root[b] # NullPtr
              THEN /\ kind' = "valid" /\ blob' = FinalizeBytes(root[b])
                   /\ root'[b] = NullPtr
                   /\ heap'[b].deletes = heap[b].deletes + 1
              ELSE /\ kind' = "null" /\ blob' = <<>>
                   /\ UNCHANGED <<root, heap>>
    /\ \A b \in Builders :
          TrieStateDestructor(b) =>
              /\ root'[b] = NullPtr
              /\ heap'[b].deletes = 1
              /\ \A c \in Builders \ {b} : root'[c] = root[c] /\ heap'[c] = heap[c]

ListKeys(c) == {c.lru_list[i].key : i \in 1..Len(c.lru_list)}

\* lru_list without the item of key
Without(l, key) ==
    LET Other(item) == item.key # key IN SelectSeq(l, Other)

\* cache_map and lru_list hold the same keys, every key once in the list, and
\* the iterator stored for a key points to the list item of that key
CacheConsistent ==
    /\ ListKeys(cache) = Keys(cache)
    /\ \A i, j \in 1..Len(cache.lru_list) :
          cache.lru_list[i].key = cache.lru_list[j].key => i = j
    /\ \A i, j \in 1..Len(cache.lru_list) :
          cache.lru_list[i].node = cache.lru_list[j].node => i = j
    /\ \A k \in Keys(cache) :
          \E i \in 1..Len(cache.lru_list) :
              /\ cache.lru_list[i].node = cache.cache_map[k]
              /\ cache.lru_list[i].key = k

\* a step that is a Put on a key the cache holds keeps the size and the keys,
\* leaves the item of the key at the front with the value put, in the list
\* node it had, and keeps the other items and their order
PutOnPresentKey ==
    (/\ hist'.clock = hist.clock + 1
     /\ got'.op = "Put"
     /\ got'.key \in Keys(cache))
    => /\ Size(cache') = Size(cache)
       /\ Keys(cache') = Keys(cache)
       /\ cache'.cache_map = cache.cache_map
       /\ cache'.lru_list[1] = [key |-> got'.key, value |-> got'.value,
                                node |-> cache.cache_map[got'.key]]
       /\ Without(cache'.lru_list, got'.key) = Without(cache.lru_list, got'.key)

\* C29: after any sequence of Get and Put calls cache_map and lru_list hold
\* exactly the same keys, every key occurs once in the list, each map entry
\* refers to the list item with its own key, and a Put on a key already
\* present replaces its value and promotes it without changing the size or
\* evicting anything
CacheStructure == []CacheConsistent /\ [][PutOnPresentKey]_vars

\* a key that was neither at the front nor alone was put again with another
\* value: it is at the front with the new value, after an eviction took place
CacheStructureWitness ==
    /\ got.op = "Put"
    /\ got.value # FirstValue
    /\ Size(cache) = MAX_CACHE_SIZE
    /\ Cardinality(KeysPut) > MAX_CACHE_SIZE
    /\ cache.lru_list[1].key = got.key
    /\ cache.lru_list[1].value = got.value
    /\ hist.stamp[got.key] = hist.clock
    /\ CacheConsistent

\* ParseQCK2 gives no trie for data, whatever the host grants
ParseFails(data) == \A mem \in ReserveGrants : ParseQCK2(data, mem).st # "ok"

\* ParseQCK2 returns nullptr for data, whatever the host grants
ParseReturnsNull(data) == \A mem \in ReserveGrants : ParseQCK2(data, mem).st = "fail"

\* this step is a GetOrParseTrie call on a BLOB whose hash the cache lacks
UncachedLookupStep ==
    /\ hist'.clock = hist.clock + 1
    /\ got'.op = "GetOrParseTrie"
    /\ FNV1aHash64(got'.data) \notin Keys(cache)

\* the call returns nullptr and leaves lru_list and cache_map as they were
ReturnsAbsentCacheKept == got'.st = "ok" /\ got'.value = NullPtr /\ cache' = cache

\* a Get of a key the cache lacks returns nullptr and changes nothing
GetMissStep ==
    (/\ hist'.clock = hist.clock + 1
     /\ got'.op = "Get"
     /\ got'.key \notin Keys(cache))
    => got'.value = NullPtr /\ cache' = cache

\* C30: when ParseQCK2 fails for a blob whose hash is not cached,
\* GetOrParseTrie returns absent and the cache's entries and recency order
\* are the same as before the call; a Get miss never changes the cache
FailedParseLeavesCache ==
    [][/\ (UncachedLookupStep /\ ParseFails(got'.data)) => ReturnsAbsentCacheKept
       /\ GetMissStep]_vars

\* the same, for the BLOBs on which ParseQCK2 returns nullptr
NullParseLeavesCache ==
    [][/\ (UncachedLookupStep /\ ParseReturnsNull(got'.data)) => ReturnsAbsentCacheKept
       /\ GetMissStep]_vars

\* a corrupted BLOB was looked up in a cache that holds a trie and came back
\* absent
NullParseWitness ==
    /\ got.op = "GetOrParseTrie"
    /\ got.st = "ok"
    /\ got.value = NullPtr
    /\ Size(cache) >= 2
    /\ FNV1aHash64(got.data) \notin Keys(cache)

\* GetOrParseTrie ended with an exception
LookupThrew == got.op = "GetOrParseTrie" /\ got.st = "throw"
====
